---- MODULE Spec2Model ----
(***************************************************************************)
(* Model of the vix validation engine: error model, rule engine,           *)
(* ParsedValidator, Schema, the cached schema of BaseModel / Form and the  *)
(* Form bind-validate-clean workflow.                                      *)
(*                                                                         *)
(* Text is modelled as a sequence of tokens (single characters where the   *)
(* code looks at characters, whole words where the text is opaque).        *)
(***************************************************************************)
EXTENDS Integers, Sequences, FiniteSets, TLC

(***************************************************************************)
(* Bounds of the model                                                     *)
(***************************************************************************)
MaxRules == 2
MaxTextLen == 2
MaxPre == 1

(***************************************************************************)
(* Program constants                                                       *)
(***************************************************************************)
INT_MAX == 2147483647

Digits == <<"0", "1", "2", "3", "4", "5", "6", "7", "8", "9">>
DigitSet == {Digits[i] : i \in 1..10}

(***************************************************************************)
(* Text helpers                                                            *)
(***************************************************************************)
Str(s) == <<s>>

DigitVal(c) == CHOOSE d \in 0..9 : Digits[d + 1] = c

RECURSIVE NatToString(_)
NatToString(n) ==
  IF n < 10 THEN <<Digits[n + 1]>>
  ELSE NatToString(n \div 10) \o <<Digits[(n % 10) + 1]>>

\* std::to_string on an integer
to_string_int(n) == IF n < 0 THEN <<"-">> \o NatToString(0 - n) ELSE NatToString(n)

\* detail::to_string_value for arithmetic T
to_string_value(v) == to_string_int(v)

RECURSIVE TextsUpTo(_, _)
TextsUpTo(alphabet, n) ==
  IF n = 0 THEN {<<>>}
  ELSE LET shorter == TextsUpTo(alphabet, n - 1)
       IN shorter \cup {Append(t, c) : t \in {s \in shorter : Len(s) = n - 1}, c \in alphabet}

IsPrefix(s, t) == Len(s) <= Len(t) /\ SubSeq(t, 1, Len(s)) = s

(***************************************************************************)
(* ErrorModel                                                              *)
(***************************************************************************)
ErrorCodes == {"Required", "Min", "Max", "LengthMin", "LengthMax", "Between",
               "Format", "InSet", "Custom"}

NoMeta == <<>>

\* ValidationError(f, c, msg) and ValidationError(f, c, msg, m)
ValidationError(f, c, msg, m) == [field |-> f, code |-> c, message |-> msg, meta |-> m]

\* rules::detail::meta_kv : emplace keeps the first value of a repeated key
RECURSIVE meta_kv(_)
meta_kv(items) ==
  IF items = <<>> THEN NoMeta
  ELSE LET rest == meta_kv(SubSeq(items, 1, Len(items) - 1))
           last == items[Len(items)]
       IN rest @@ (last[1] :> last[2])

\* an add that puts the new error in front
ErrorsAdd_front(errors, e) == <<e>> \o errors

\* ValidationErrors::add (all three overloads push one element at the end)
ErrorsAdd(errors, e) == Append(errors, e)

\* a merge that puts the other collection's errors in front
ErrorsMerge_prepend(errors, other) == other \o errors

\* ValidationErrors::merge(const ValidationErrors&)
ErrorsMerge(errors, other) == errors \o other

\* ValidationErrors::merge(ValidationErrors&&): both collections afterwards
ErrorsMergeMove(errors, other) ==
  IF other = <<>> THEN [self |-> errors, other |-> other]
  ELSE [self |-> ErrorsMerge(errors, other), other |-> <<>>]

\* ValidationErrors::clear
ErrorsClear(errors) == <<>>

\* ValidationErrors::empty / size
Errors_empty(errors) == Len(errors) = 0
Errors_size(errors) == Len(errors)

\* an ok() that tolerates one error
Errors_ok_lenient(errors) == Len(errors) <= 1

\* ValidationErrors::ok
Errors_ok(errors) == Errors_empty(errors)

\* ValidationResult::ok / empty / size / operator bool on its errors member
\* a failure() that marks an empty collection so that the result is not ok
ValidationResult_failure_marked(e) ==
  IF e = <<>> THEN <<ValidationError("", "Custom", <<"failure">>, NoMeta)>> ELSE e

\* ValidationResult::success(), failure(e), from_errors(e): the errors held
ValidationResult_failure(e) == e
ValidationResult_from_errors(e) == e
ValidationResult_success == <<>>

Result_ok(errors) == Errors_ok(errors)
Result_empty(errors) == Errors_empty(errors)
Result_size(errors) == Errors_size(errors)
Result_bool(errors) == Result_ok(errors)

(***************************************************************************)
(* Rules (Rule<T> values).  A rule is a record; kind "null" is an empty    *)
(* std::function.                                                          *)
(***************************************************************************)
NullRule == [kind |-> "null", a |-> 0, b |-> 0, msg |-> <<>>, set |-> <<>>]
rules_required(msg) == [kind |-> "required", a |-> 0, b |-> 0, msg |-> msg, set |-> <<>>]
rules_min(m, msg) == [kind |-> "min", a |-> m, b |-> 0, msg |-> msg, set |-> <<>>]
rules_max(m, msg) == [kind |-> "max", a |-> m, b |-> 0, msg |-> msg, set |-> <<>>]
rules_between(lo, hi, msg) == [kind |-> "between", a |-> lo, b |-> hi, msg |-> msg, set |-> <<>>]
rules_length_min(n, msg) == [kind |-> "length_min", a |-> n, b |-> 0, msg |-> msg, set |-> <<>>]
rules_length_max(n, msg) == [kind |-> "length_max", a |-> n, b |-> 0, msg |-> msg, set |-> <<>>]
rules_in_set(allowed, msg) == [kind |-> "in_set", a |-> 0, b |-> 0, msg |-> msg, set |-> allowed]
rules_email(msg) == [kind |-> "email", a |-> 0, b |-> 0, msg |-> msg, set |-> <<>>]
rules_required_sv(msg) == [kind |-> "required_sv", a |-> 0, b |-> 0, msg |-> msg, set |-> <<>>]
rules_required_optional(msg) == [kind |-> "required_optional", a |-> 0, b |-> 0, msg |-> msg, set |-> <<>>]
\* a caller-written rule that always reports one Custom error
CustomRule(msg) == [kind |-> "custom", a |-> 0, b |-> 0, msg |-> msg, set |-> <<>>]

\* std::string::npos, and std::string::find(ch, from) with 0-based positions
NPOS == -1
StrFind(text, ch, from) ==
  LET hits == {i \in (from + 1)..Len(text) : text[i] = ch}
  IN IF hits = {} THEN NPOS
     ELSE (CHOOSE i \in hits : \A j \in hits : i <= j) - 1

\* a required that also rejects text made only of blanks
ApplyRequired_trims(r, field, value, out) ==
  IF \A i \in 1..Len(value) : value[i] = " "
  THEN ErrorsAdd(out, ValidationError(field, "Required", r.msg, NoMeta))
  ELSE out

\* the body of the lambda returned by rules::required / rules::required_sv
ApplyRequired(r, field, value, out) ==
  IF value = <<>>
  THEN ErrorsAdd(out, ValidationError(field, "Required", r.msg, NoMeta))
  ELSE out

\* the body of the lambda returned by rules::required<T> for std::optional<T>;
\* an optional is [has_value, v]
ApplyRequiredOptional(r, field, value, out) ==
  IF ~value.has_value
  THEN ErrorsAdd(out, ValidationError(field, "Required", r.msg, NoMeta))
  ELSE out

\* a min that also rejects the bound itself
ApplyMin_inclusive(r, field, value, out) ==
  IF value <= r.a
  THEN ErrorsAdd(out, ValidationError(field, "Min", r.msg,
         meta_kv(<< <<"min", to_string_value(r.a)>>, <<"got", to_string_value(value)>> >>)))
  ELSE out

\* the body of the lambda returned by rules::min
ApplyMin(r, field, value, out) ==
  IF value < r.a
  THEN ErrorsAdd(out, ValidationError(field, "Min", r.msg,
         meta_kv(<< <<"min", to_string_value(r.a)>>, <<"got", to_string_value(value)>> >>)))
  ELSE out

\* the body of the lambda returned by rules::max
ApplyMax(r, field, value, out) ==
  IF value > r.a
  THEN ErrorsAdd(out, ValidationError(field, "Max", r.msg,
         meta_kv(<< <<"max", to_string_value(r.a)>>, <<"got", to_string_value(value)>> >>)))
  ELSE out

\* a between with exclusive bounds
ApplyBetween_exclusive(r, field, value, out) ==
  IF value <= r.a \/ value >= r.b
  THEN ErrorsAdd(out, ValidationError(field, "Between", r.msg,
         meta_kv(<< <<"min", to_string_value(r.a)>>, <<"max", to_string_value(r.b)>>,
                    <<"got", to_string_value(value)>> >>)))
  ELSE out

\* the body of the lambda returned by rules::between
ApplyBetween(r, field, value, out) ==
  IF value < r.a \/ value > r.b
  THEN ErrorsAdd(out, ValidationError(field, "Between", r.msg,
         meta_kv(<< <<"min", to_string_value(r.a)>>, <<"max", to_string_value(r.b)>>,
                    <<"got", to_string_value(value)>> >>)))
  ELSE out

\* the body of the lambda returned by rules::length_min
ApplyLengthMin(r, field, value, out) ==
  IF Len(value) < r.a
  THEN ErrorsAdd(out, ValidationError(field, "LengthMin", r.msg,
         meta_kv(<< <<"min", to_string_int(r.a)>>, <<"got", to_string_int(Len(value))>> >>)))
  ELSE out

\* a length_max that also rejects a text of exactly n characters
ApplyLengthMax_inclusive(r, field, value, out) ==
  IF Len(value) >= r.a
  THEN ErrorsAdd(out, ValidationError(field, "LengthMax", r.msg,
         meta_kv(<< <<"max", to_string_int(r.a)>>, <<"got", to_string_int(Len(value))>> >>)))
  ELSE out

\* the body of the lambda returned by rules::length_max
ApplyLengthMax(r, field, value, out) ==
  IF Len(value) > r.a
  THEN ErrorsAdd(out, ValidationError(field, "LengthMax", r.msg,
         meta_kv(<< <<"max", to_string_int(r.a)>>, <<"got", to_string_int(Len(value))>> >>)))
  ELSE out

\* an in_set that reports against no field
ApplyInSet_unnamed(r, field, value, out) ==
  IF \A i \in 1..Len(r.set) : r.set[i] # value
  THEN ErrorsAdd(out, ValidationError("", "InSet", r.msg, meta_kv(<< <<"got", value>> >>)))
  ELSE out

\* the body of the lambda returned by rules::in_set
ApplyInSet(r, field, value, out) ==
  IF \A i \in 1..Len(r.set) : r.set[i] # value
  THEN ErrorsAdd(out, ValidationError(field, "InSet", r.msg, meta_kv(<< <<"got", value>> >>)))
  ELSE out

\* an email rule that leaves the empty text to the required rule
ApplyEmail_skips_empty(r, field, value, out) ==
  LET at == StrFind(value, "@", 0)
  IN IF value = <<>> THEN out
     ELSE IF at = NPOS \/ at = 0
     THEN ErrorsAdd(out, ValidationError(field, "Format", r.msg, NoMeta))
     ELSE LET dot == StrFind(value, ".", at + 1)
          IN IF dot = NPOS \/ dot = at + 1 \/ dot = Len(value) - 1
             THEN ErrorsAdd(out, ValidationError(field, "Format", r.msg, NoMeta))
             ELSE out

\* the body of the lambda returned by rules::email
ApplyEmail(r, field, value, out) ==
  LET at == StrFind(value, "@", 0)
  IN IF at = NPOS \/ at = 0
     THEN ErrorsAdd(out, ValidationError(field, "Format", r.msg, NoMeta))
     ELSE LET dot == StrFind(value, ".", at + 1)
          IN IF dot = NPOS \/ dot = at + 1 \/ dot = Len(value) - 1
             THEN ErrorsAdd(out, ValidationError(field, "Format", r.msg, NoMeta))
             ELSE out

\* rules that stay silent once the accumulator holds an error
RuleCall_quiet_after_error(r, field, value, out) ==
  IF out # <<>> THEN out ELSE
  CASE r.kind = "required" -> ApplyRequired(r, field, value, out)
    [] r.kind = "min" -> ApplyMin(r, field, value, out)
    [] r.kind = "max" -> ApplyMax(r, field, value, out)
    [] r.kind = "between" -> ApplyBetween(r, field, value, out)
    [] r.kind = "length_min" -> ApplyLengthMin(r, field, value, out)
    [] r.kind = "length_max" -> ApplyLengthMax(r, field, value, out)
    [] r.kind = "in_set" -> ApplyInSet(r, field, value, out)
    [] r.kind = "email" -> ApplyEmail(r, field, value, out)
    [] r.kind = "required_sv" -> ApplyRequired(r, field, value, out)
    [] r.kind = "required_optional" -> ApplyRequiredOptional(r, field, value, out)
    [] r.kind = "custom" -> ErrorsAdd(out, ValidationError(field, "Custom", r.msg, NoMeta))
    [] OTHER -> out

\* invoking a non-empty Rule<T>
RuleCall(r, field, value, out) ==
  CASE r.kind = "required" -> ApplyRequired(r, field, value, out)
    [] r.kind = "min" -> ApplyMin(r, field, value, out)
    [] r.kind = "max" -> ApplyMax(r, field, value, out)
    [] r.kind = "between" -> ApplyBetween(r, field, value, out)
    [] r.kind = "length_min" -> ApplyLengthMin(r, field, value, out)
    [] r.kind = "length_max" -> ApplyLengthMax(r, field, value, out)
    [] r.kind = "in_set" -> ApplyInSet(r, field, value, out)
    [] r.kind = "email" -> ApplyEmail(r, field, value, out)
    [] r.kind = "required_sv" -> ApplyRequired(r, field, value, out)
    [] r.kind = "required_optional" -> ApplyRequiredOptional(r, field, value, out)
    [] r.kind = "custom" -> ErrorsAdd(out, ValidationError(field, "Custom", r.msg, NoMeta))
    [] OTHER -> out

\* operator bool of std::function
RuleSet(r) == r.kind # "null"

\* a loop that reports only the first failing rule of a field
RECURSIVE apply_rules_into_first_failure(_, _, _, _)
apply_rules_into_first_failure(field, value, rules, out) ==
  IF rules = <<>> \/ out # <<>> THEN out
  ELSE LET r == Head(rules)
           out1 == IF RuleSet(r) THEN RuleCall(r, field, value, out) ELSE out
       IN apply_rules_into_first_failure(field, value, Tail(rules), out1)

\* apply_rules_into: for each rule, if set, rule(field, value, out)
RECURSIVE apply_rules_into(_, _, _, _)
apply_rules_into(field, value, rules, out) ==
  IF rules = <<>> THEN out
  ELSE LET r == Head(rules)
           out1 == IF RuleSet(r) THEN RuleCall(r, field, value, out) ELSE out
       IN apply_rules_into(field, value, Tail(rules), out1)

\* apply_rules: fresh collection, apply_rules_into, wrap in a ValidationResult
apply_rules(field, value, rules) == apply_rules_into(field, value, rules, <<>>)

(***************************************************************************)
(* The parsing collaborator vix::conversion::parse<int> (external): the    *)
(* text is accepted when it is a non-empty run of decimal digits whose     *)
(* value fits an int; otherwise a ConversionError {code, position, input}. *)
(***************************************************************************)
ConversionError(code, position, input) ==
  [ok |-> FALSE, value |-> 0, code |-> code, position |-> position, input |-> input]
ParseOk(v) == [ok |-> TRUE, value |-> v, code |-> "none", position |-> 0, input |-> <<>>]

RECURSIVE ParseDigits(_, _, _)
ParseDigits(text, i, acc) ==
  IF i > Len(text) THEN ParseOk(acc)
  ELSE IF text[i] \notin DigitSet THEN ConversionError("invalid_character", i - 1, text)
  ELSE LET d == DigitVal(text[i])
       IN IF acc > (INT_MAX - d) \div 10 THEN ConversionError("overflow", i - 1, text)
          ELSE ParseDigits(text, i + 1, acc * 10 + d)

parse(text) ==
  IF text = <<>> THEN ConversionError("empty_input", 0, text)
  ELSE ParseDigits(text, 1, 0)

(***************************************************************************)
(* Pipe: conversion_error_to_validation and ParsedValidator                *)
(***************************************************************************)
\* conversion_error_to_validation(field, err, message)
conversion_error_to_validation(field, err, message) ==
  LET m1 == ("conversion_code" :> Str(err.code)) @@ NoMeta
      m2 == ("position" :> to_string_int(err.position)) @@ m1
      m3 == IF err.input # <<>> THEN ("input" :> err.input) @@ m2 ELSE m2
  IN ValidationError(field, "Format", message, m3)

\* a loop that gives up as soon as the accumulator holds an error
RECURSIVE PVApplyRules_stop_at_first(_, _, _, _, _, _)
PVApplyRules_stop_at_first(field, value, rules, i, out, calls) ==
  IF i > Len(rules) \/ out # <<>> THEN [out |-> out, calls |-> calls]
  ELSE IF RuleSet(rules[i])
       THEN PVApplyRules_stop_at_first(field, value, rules, i + 1,
                         RuleCall(rules[i], field, value, out), Append(calls, i))
       ELSE PVApplyRules_stop_at_first(field, value, rules, i + 1, out, calls)

\* the for loop of ParsedValidator::result_into: rules_[i..] applied to the
\* parsed value; calls records the index of every rule that was invoked
RECURSIVE PVApplyRules(_, _, _, _, _, _)
PVApplyRules(field, value, rules, i, out, calls) ==
  IF i > Len(rules) THEN [out |-> out, calls |-> calls]
  ELSE IF RuleSet(rules[i])
       THEN PVApplyRules(field, value, rules, i + 1,
                         RuleCall(rules[i], field, value, out), Append(calls, i))
       ELSE PVApplyRules(field, value, rules, i + 1, out, calls)

\* a return value that looks at the whole accumulator instead of the growth
no_new_errors_absolute(out, before) == Errors_empty(out)

\* the value result_into returns after the rules: out.size() == before
no_new_errors(out, before) == Errors_size(out) = before

\* a result_into that forgets to return after the parse failure and runs the
\* typed rules on a value-initialised T
result_into_no_return(v, out, parse_message) ==
  LET before == Len(out)
      parsed == parse(v.input_)
      out0 == IF ~parsed.ok
              THEN ErrorsAdd(out, conversion_error_to_validation(v.field_, parsed, parse_message))
              ELSE out
      run == PVApplyRules(v.field_, parsed.value, v.rules_, 1, out0, <<>>)
  IN [out |-> run.out, ret |-> no_new_errors(run.out, before), calls |-> run.calls]

\* ParsedValidator::result_into(out, parse_message) as a function of the
\* object and the accumulator: the new accumulator, the returned bool and
\* the rule invocations
result_into(v, out, parse_message) ==
  LET before == Len(out)
      parsed == parse(v.input_)
  IN IF ~parsed.ok
     THEN [out |-> ErrorsAdd(out, conversion_error_to_validation(v.field_, parsed, parse_message)),
           ret |-> FALSE, calls |-> <<>>]
     ELSE LET run == PVApplyRules(v.field_, parsed.value, v.rules_, 1, out, <<>>)
          IN [out |-> run.out, ret |-> no_new_errors(run.out, before), calls |-> run.calls]

\* ParsedValidator::result(parse_message): fresh accumulator, result_into
result(v, parse_message) == result_into(v, <<>>, parse_message).out

(***************************************************************************)
(* Inputs of the ParsedValidator specification                             *)
(***************************************************************************)
FieldNames == {"age"}
ScenarioTexts == {<<"a", "b", "c">>, <<"1", "0">>, <<"2", "5">>, <<"1", "2", "0">>, <<"1", "2", "1">>,
                  <<"9", "9", "9", "9", "9", "9", "9", "9", "9", "9", "9", "9", "9", "9", "9",
                    "9", "9", "9", "9", "9", "9">>}
ParsedTexts == TextsUpTo({"1", "8", "a"}, MaxTextLen) \cup ScenarioTexts
ParseMessages == {Str("invalid value"), Str("age must be a number")}
IntRules == {rules_between(18, 120, Str("age out of range")),
             rules_between(18, 120, Str("value is out of range")),
             rules_min(18, Str("value is below minimum")),
             rules_max(120, Str("value is above maximum")),
             CustomRule(Str("custom")),
             NullRule}
PreErr == ValidationError("earlier", "Custom", Str("earlier error"), NoMeta)
RECURSIVE PreOutsUpTo(_)
PreOutsUpTo(n) == IF n = 0 THEN {<<>>} ELSE PreOutsUpTo(n - 1) \cup {[i \in 1..n |-> PreErr]}
PreOuts == PreOutsUpTo(MaxPre)

NoValidator == [field_ |-> "", input_ |-> <<>>, rules_ |-> <<>>]

VARIABLES
  pv,        \* the ParsedValidator object {field_, input_, rules_}
  pvOp,      \* the last operation on it
  pvBefore,  \* the accumulator handed to the last result_into / result
  pvOut,     \* the accumulator after the call
  pvRet,     \* the bool result_into returned
  pvCalls,   \* indices of the rules the last call invoked
  pvMsg      \* the parse_message argument of the last call

parsedVars == <<pv, pvOp, pvBefore, pvOut, pvRet, pvCalls, pvMsg>>

InitParsed ==
  /\ pv = NoValidator
  /\ pvOp = "none"
  /\ pvBefore = <<>>
  /\ pvOut = <<>>
  /\ pvRet = TRUE
  /\ pvCalls = <<>>
  /\ pvMsg = <<>>

\* validate_parsed<int>(field, input)
ValidateParsed ==
  \E f \in FieldNames, t \in ParsedTexts :
    /\ pv' = [field_ |-> f, input_ |-> t, rules_ |-> <<>>]
    /\ pvOp' = "new"
    /\ pvBefore' = <<>> /\ pvOut' = <<>> /\ pvRet' = TRUE /\ pvCalls' = <<>> /\ pvMsg' = <<>>

\* ParsedValidator::rule(r) and the helpers min / max / between built on it
PVRule ==
  \E r \in IntRules :
    /\ pvOp # "none"
    /\ Len(pv.rules_) < MaxRules
    /\ pv' = [pv EXCEPT !.rules_ = Append(@, r)]
    /\ pvOp' = "rule"
    /\ UNCHANGED <<pvBefore, pvOut, pvRet, pvCalls, pvMsg>>

\* v.result_into(out, parse_message)
PVResultInto ==
  \E pre \in PreOuts, msg \in ParseMessages :
    LET r == result_into(pv, pre, msg)
    IN /\ pvOp # "none"
       /\ pvBefore' = pre
       /\ pvOut' = r.out
       /\ pvRet' = r.ret
       /\ pvCalls' = r.calls
       /\ pvMsg' = msg
       /\ pvOp' = "result_into"
       /\ UNCHANGED pv

\* v.result(parse_message)
PVResult ==
  \E msg \in ParseMessages :
    /\ pvOp # "none"
    /\ pvBefore' = <<>>
    /\ pvOut' = result(pv, msg)
    /\ pvCalls' = result_into(pv, <<>>, msg).calls
    /\ pvMsg' = msg
    /\ pvOp' = "result"
    /\ UNCHANGED <<pv, pvRet>>

NextParsed == ValidateParsed \/ PVRule \/ PVResultInto \/ PVResult


(***************************************************************************)
(* Validator<T> (Validate.hpp)                                             *)
(***************************************************************************)
\* validate(field, value) followed by rule registrations
Validator(field, value, rules) == [field_ |-> field, value_ |-> value, rules_ |-> rules]

\* Validator::result
Validator_result(v) == apply_rules(v.field_, v.value_, v.rules_)

(***************************************************************************)
(* Schema<T>.  T is a record {email, password, confirm, age}; a registered *)
(* check (CheckFn) is a record naming the overload that created it and     *)
(* what that overload captured.                                            *)
(***************************************************************************)
DefaultParseMessage == Str("invalid value")

NoCheckArgs == [name |-> "", member |-> "", rules |-> <<>>, msg |-> <<>>, inv |-> ""]

\* the callable handed to Schema::field, returning a ValidationResult:
\*   [](f, v) { return validate(f, v).<rules>.result(); }
FnFieldResult(c, name, value) == Validator_result(Validator(name, value, c.rules))

\* the callable handed to Schema::field, returning the unexecuted Validator
FnFieldBuilder(c, name, value) == Validator(name, value, c.rules)

\* the callable handed to Schema::parsed, returning a ValidationResult:
\*   [](f, in) { return validate_parsed<int>(f, in).<rules>.result(msg); }
FnParsedResult(c, name, input) ==
  result([field_ |-> name, input_ |-> input, rules_ |-> c.rules], c.msg)

\* the callable handed to Schema::parsed, returning the unexecuted ParsedValidator
FnParsedBuilder(c, name, input) == [field_ |-> name, input_ |-> input, rules_ |-> c.rules]

\* the whole-object callable (const T&, ValidationErrors&) -> void of the
\* examples: the two password fields must match
FnCheckOut(c, obj, out) ==
  IF obj.password # obj.confirm
  THEN ErrorsAdd(out, ValidationError("confirm", "Custom", Str("passwords do not match"), NoMeta))
  ELSE out

\* the same invariant as a callable (const T&) -> ValidationResult
FnCheckRet(c, obj) == FnCheckOut(c, obj, <<>>)

\* a FieldSpec branch that hands back its own errors in place of the accumulator
CheckCall_spec_replaces(c, obj, out) ==
  CASE c.form = "field_result" ->
         ErrorsMerge(out, FnFieldResult(c, c.name, obj[c.member]))
    [] c.form = "field_builder" ->
         ErrorsMerge(out, Validator_result(FnFieldBuilder(c, c.name, obj[c.member])))
    [] c.form = "field_spec" ->
         apply_rules(c.name, obj[c.member], c.rules)
    [] c.form = "parsed_result" ->
         ErrorsMerge(out, FnParsedResult(c, c.name, obj[c.member]))
    [] c.form = "parsed_builder" ->
         ErrorsMerge(out, result(FnParsedBuilder(c, c.name, obj[c.member]), DefaultParseMessage))
    [] c.form = "parsed_spec" ->
         result_into([field_ |-> c.name, input_ |-> obj[c.member], rules_ |-> c.rules],
                     out, c.msg).out
    [] c.form = "check_out" -> FnCheckOut(c, obj, out)
    [] c.form = "check_ret" -> ErrorsMerge(out, FnCheckRet(c, obj))
    [] OTHER -> out

\* the body of the lambda each registration pushes into checks_
CheckCall(c, obj, out) ==
  CASE c.form = "field_result" ->
         ErrorsMerge(out, FnFieldResult(c, c.name, obj[c.member]))
    [] c.form = "field_builder" ->
         ErrorsMerge(out, Validator_result(FnFieldBuilder(c, c.name, obj[c.member])))
    [] c.form = "field_spec" ->
         apply_rules_into(c.name, obj[c.member], c.rules, out)
    [] c.form = "parsed_result" ->
         ErrorsMerge(out, FnParsedResult(c, c.name, obj[c.member]))
    [] c.form = "parsed_builder" ->
         ErrorsMerge(out, result(FnParsedBuilder(c, c.name, obj[c.member]), DefaultParseMessage))
    [] c.form = "parsed_spec" ->
         result_into([field_ |-> c.name, input_ |-> obj[c.member], rules_ |-> c.rules],
                     out, c.msg).out
    [] c.form = "check_out" -> FnCheckOut(c, obj, out)
    [] c.form = "check_ret" -> ErrorsMerge(out, FnCheckRet(c, obj))
    [] OTHER -> out

\* operator bool of a CheckFn
CheckSet(c) == c.form # "null"

\* a validate loop that stops at the first check that reported an error
RECURSIVE SchemaRun_short_circuit(_, _, _, _, _)
SchemaRun_short_circuit(checks, obj, i, out, calls) ==
  IF i > Len(checks) \/ out # <<>> THEN [out |-> out, calls |-> calls]
  ELSE IF CheckSet(checks[i])
       THEN SchemaRun_short_circuit(checks, obj, i + 1, CheckCall(checks[i], obj, out), Append(calls, i))
       ELSE SchemaRun_short_circuit(checks, obj, i + 1, out, calls)

\* the for loop of Schema::validate; calls records every check invoked
RECURSIVE SchemaRun(_, _, _, _, _)
SchemaRun(checks, obj, i, out, calls) ==
  IF i > Len(checks) THEN [out |-> out, calls |-> calls]
  ELSE IF CheckSet(checks[i])
       THEN SchemaRun(checks, obj, i + 1, CheckCall(checks[i], obj, out), Append(calls, i))
       ELSE SchemaRun(checks, obj, i + 1, out, calls)

\* Schema::validate(obj)
Schema_validate(checks, obj) == SchemaRun(checks, obj, 1, <<>>, <<>>).out

(***************************************************************************)
(* Inputs of the Schema specification                                      *)
(***************************************************************************)
MaxChecks == 4

EmptyText == <<>>
BadEmail == <<"b", "a", "d">>
GoodEmail == <<"a", "@", "b", ".", "c">>
Text10 == <<"1", "0">>
Text25 == <<"2", "5">>
TextPw == <<"p", "w">>

Record(e, p, c, a) == [email |-> e, password |-> p, confirm |-> c, age |-> a]
\* a record failing every check, one passing every check, one in between
Records == {Record(EmptyText, EmptyText, TextPw, Text10),
            Record(GoodEmail, TextPw, TextPw, Text25),
            Record(GoodEmail, EmptyText, TextPw, <<"a", "b">>)}

EmailRules == <<rules_required(Str("email is required")), rules_email(Str("invalid email format"))>>
PasswordRules == <<rules_length_min(2, Str("length is below minimum"))>>
AgeRules == <<rules_between(18, 120, Str("age out of range"))>>

FieldFnArgs == {[NoCheckArgs EXCEPT !.name = "email", !.member = "email", !.rules = EmailRules]}
FieldSpecArgs == {[NoCheckArgs EXCEPT !.name = "password", !.member = "password", !.rules = PasswordRules]}
ParsedFnArgs == {[NoCheckArgs EXCEPT !.name = "age", !.member = "age", !.rules = AgeRules,
                                     !.msg = Str("age must be a number")]}
ParsedSpecArgs == {[NoCheckArgs EXCEPT !.name = "age", !.member = "age", !.rules = AgeRules,
                                       !.msg = Str("age must be a number")]}
CheckArgs == {[NoCheckArgs EXCEPT !.inv = "match"]}

MakeCheck(form, args) ==
  [form |-> form, name |-> args.name, member |-> args.member, rules |-> args.rules,
   msg |-> args.msg, inv |-> args.inv]

VARIABLES
  checks_,   \* Schema::checks_
  sOp,       \* the last operation on the schema
  sObj,      \* the record handed to the last validate
  sOut,      \* the errors the last validate returned
  sCalls     \* indices of the checks the last validate invoked
             \* (sObj, sOut, sCalls describe the last validate of the schema as
             \* it stands; a registration starts a new record of them)

schemaVars == <<checks_, sOp, sObj, sOut, sCalls>>

NoRecord == Record(<<>>, <<>>, <<>>, <<>>)

InitSchema ==
  /\ checks_ = <<>>
  /\ sOp = "new"
  /\ sObj = NoRecord
  /\ sOut = <<>>
  /\ sCalls = <<>>

Register(c) ==
  /\ Len(checks_) < MaxChecks
  /\ checks_' = Append(checks_, c)
  /\ sOp' = "register"
  /\ sObj' = NoRecord /\ sOut' = <<>> /\ sCalls' = <<>>

\* Schema::field(name, member, fn), fn returning ValidationResult or Validator
SchemaFieldFn ==
  \E shape \in {"field_result", "field_builder"}, a \in FieldFnArgs : Register(MakeCheck(shape, a))

\* Schema::field(name, member, FieldSpec)
SchemaFieldSpec == \E a \in FieldSpecArgs : Register(MakeCheck("field_spec", a))

\* Schema::parsed(name, member, fn), fn returning ValidationResult or ParsedValidator
SchemaParsedFn ==
  \E shape \in {"parsed_result", "parsed_builder"}, a \in ParsedFnArgs : Register(MakeCheck(shape, a))

\* Schema::parsed(name, member, ParsedSpec)
SchemaParsedSpec == \E a \in ParsedSpecArgs : Register(MakeCheck("parsed_spec", a))

\* Schema::check(fn), fn of either accepted shape
SchemaCheck ==
  \E shape \in {"check_out", "check_ret"}, a \in CheckArgs : Register(MakeCheck(shape, a))

\* Schema::validate(obj)
SchemaValidate ==
  \E obj \in Records :
    LET run == SchemaRun(checks_, obj, 1, <<>>, <<>>)
    IN /\ sObj' = obj
       /\ sOut' = run.out
       /\ sCalls' = run.calls
       /\ sOp' = "validate"
       /\ UNCHANGED checks_

NextSchema ==
  SchemaFieldFn \/ SchemaFieldSpec \/ SchemaParsedFn \/ SchemaParsedSpec \/ SchemaCheck \/ SchemaValidate

(***************************************************************************)
(* Form<Derived>: bind + validate + clean.  Derived is the record type     *)
(* above; what it offers (bind with 3 or 2 parameters, set, clean) and     *)
(* whether Input is the key-value vector are fixed when the program is     *)
(* built.                                                                  *)
(***************************************************************************)
MaxPairs == 2

\* the if constexpr chain of Form::validate; "none" is the static_assert
Strategy(cfg) ==
  IF cfg.bind3 THEN "bind3"
  ELSE IF cfg.bind2 THEN "bind2"
  ELSE IF cfg.kvinput /\ cfg.kvset THEN "kv"
  ELSE "none"

\* the strategies whose detection trait holds for a pairing:
\* has_bind3, has_bind2, is_kv_input && has_kv_set
CompatibleStrategies(cfg) ==
  {st \in {"bind3", "bind2", "kv"} :
     \/ st = "bind3" /\ cfg.bind3
     \/ st = "bind2" /\ cfg.bind2
     \/ st = "kv" /\ cfg.kvinput /\ cfg.kvset}

\* the (Derived, Input) pairings for which Form::validate compiles
FormConfigs ==
  {cfg \in [bind3 : BOOLEAN, bind2 : BOOLEAN, kvset : BOOLEAN, kvinput : BOOLEAN, clean : BOOLEAN] :
     Strategy(cfg) # "none"}

DefaultFormMessage == Str("invalid input")

\* detail::make_form_error(message, code)
make_form_error(message, code) == ValidationError("__form__", code, message, NoMeta)

NoValue == [kind |-> "none", rec |-> NoRecord]
\* FormResult(), FormResult(T v), FormResult(ValidationErrors e)
FormResultEmpty == [has_value |-> FALSE, value |-> NoValue, errors |-> <<>>]
FormResultValue(v) == [has_value |-> TRUE, value |-> v, errors |-> <<>>]
FormResultErrors(e) == [has_value |-> FALSE, value |-> NoValue, errors |-> e]
\* FormResult::operator bool
FormResultBool(r) == r.has_value /\ Len(r.errors) = 0

\* a bind3 failure branch that returns whatever the binder left in errors
Bind3Failure_no_generic(errors) == errors

\* the !ok branch of the bind3 strategy: a generic error if the binder added none
Bind3Failure(errors) ==
  IF Len(errors) = 0
  THEN ErrorsAdd(errors, make_form_error(DefaultFormMessage, "Format"))
  ELSE errors

\* Derived::set(form, key, value) of the key-value examples: known keys are
\* stored, any other key is rejected
SettableKeys == {"email", "age"}
Derived_set(form, key, value) ==
  IF key \in SettableKeys
  THEN [ok |-> TRUE, form |-> [form EXCEPT ![key] = value]]
  ELSE [ok |-> FALSE, form |-> form]

\* Derived::schema(): the checks of the form type
DerivedSchema ==
  << MakeCheck("field_spec", [NoCheckArgs EXCEPT !.name = "email", !.member = "email", !.rules = EmailRules]),
     MakeCheck("parsed_spec", [NoCheckArgs EXCEPT !.name = "age", !.member = "age", !.rules = AgeRules,
                                                  !.msg = Str("age must be a number")]),
     MakeCheck("check_out", [NoCheckArgs EXCEPT !.inv = "match"]) >>

\* Derived::clean() const
Derived_clean(form) == [kind |-> "cleaned", rec |-> form]

(***************************************************************************)
(* Inputs of the Form specification                                        *)
(***************************************************************************)
KvPairs == {<<"email", BadEmail>>, <<"email", GoodEmail>>, <<"age", Text25>>, <<"unknown_key", <<"x">>>>}
RECURSIVE KvListsUpTo(_)
KvListsUpTo(n) ==
  IF n = 0 THEN {<<>>}
  ELSE LET shorter == KvListsUpTo(n - 1)
       IN shorter \cup {Append(l, kv) : l \in {x \in shorter : Len(x) = n - 1}, kv \in KvPairs}
FormInputs == KvListsUpTo(MaxPairs)

BindErr1 == ValidationError("email", "Required", Str("email is missing"), NoMeta)
BindErr2 == ValidationError("age", "Format", Str("age is not a number"), NoMeta)
\* what a 3-parameter binder may append to errors
BindErrChoices == {<<>>, <<BindErr1>>, <<BindErr1, BindErr2>>}

VARIABLES
  fcfg,      \* what Derived and Input offer (fixed at build time)
  fpc,       \* position inside Form::validate
  fin,       \* the input of the call
  fform,     \* the local Derived form
  ferrors,   \* the local ValidationErrors errors
  fkv,       \* index of the next pair of the key-value loop
  fbind,     \* outcome of the bind stage: "pending", "ok", "failed"
  fbindErrs, \* what the binder appended to errors
  fvr,       \* outcome of the validate stage: "pending", "ok", "failed"
  fvrErrs,   \* vr.errors
  ftrace,    \* calls made on Derived and on the schema, in order
  fres       \* the FormResult returned

formVars == <<fcfg, fpc, fin, fform, ferrors, fkv, fbind, fbindErrs, fvr, fvrErrs, ftrace, fres>>

\* a form type offering only the key-value setter and clean()
KvFormConfig == [bind3 |-> FALSE, bind2 |-> FALSE, kvset |-> TRUE, kvinput |-> TRUE, clean |-> TRUE]

FormNotCalled ==
  /\ fpc = "idle"
  /\ fin = <<>>
  /\ fform = NoRecord
  /\ ferrors = <<>>
  /\ fkv = 1
  /\ fbind = "pending"
  /\ fbindErrs = <<>>
  /\ fvr = "pending"
  /\ fvrErrs = <<>>
  /\ ftrace = <<>>
  /\ fres = FormResultEmpty

InitForm == fcfg \in FormConfigs /\ FormNotCalled

\* entry of Form::validate(in) / validate_kv(kv): ValidationErrors errors; Derived form{};
FormValidateCall ==
  \E in \in FormInputs :
    /\ fpc \in {"idle", "done"}
    /\ fin' = in
    /\ fform' = NoRecord
    /\ ferrors' = <<>>
    /\ fkv' = 1
    /\ fbind' = "pending" /\ fbindErrs' = <<>>
    /\ fvr' = "pending" /\ fvrErrs' = <<>>
    /\ ftrace' = <<>>
    /\ fres' = FormResultEmpty
    /\ fpc' = "bind"
    /\ UNCHANGED fcfg

\* stage 1, strategy (a): Derived::bind(form, in, errors)
FormBind3 ==
  \E ok \in BOOLEAN, errs \in BindErrChoices, rec \in Records :
    /\ fpc = "bind" /\ Strategy(fcfg) = "bind3"
    /\ ftrace' = Append(ftrace, <<"bind3">>)
    /\ fform' = rec
    /\ fbindErrs' = errs
    /\ IF ~ok
       THEN /\ ferrors' = Bind3Failure(ErrorsMerge(ferrors, errs))
            /\ fres' = FormResultErrors(ferrors')
            /\ fbind' = "failed"
            /\ fpc' = "done"
       ELSE /\ ferrors' = ErrorsMerge(ferrors, errs)
            /\ fbind' = "ok"
            /\ fpc' = "validate"
            /\ UNCHANGED fres
    /\ UNCHANGED <<fcfg, fin, fkv, fvr, fvrErrs>>

\* a bind2 branch without the return
FormBind2_no_return ==
  \E ok \in BOOLEAN, rec \in Records :
    /\ fpc = "bind" /\ Strategy(fcfg) = "bind2"
    /\ ftrace' = Append(ftrace, <<"bind2">>)
    /\ fform' = rec
    /\ ferrors' = IF ~ok THEN ErrorsAdd(ferrors, make_form_error(DefaultFormMessage, "Format")) ELSE ferrors
    /\ fbind' = IF ok THEN "ok" ELSE "failed"
    /\ fpc' = "validate"
    /\ UNCHANGED <<fcfg, fin, fkv, fbindErrs, fvr, fvrErrs, fres>>

\* stage 1, strategy (b): Derived::bind(form, in)
FormBind2 ==
  \E ok \in BOOLEAN, rec \in Records :
    /\ fpc = "bind" /\ Strategy(fcfg) = "bind2"
    /\ ftrace' = Append(ftrace, <<"bind2">>)
    /\ fform' = rec
    /\ IF ~ok
       THEN /\ ferrors' = ErrorsAdd(ferrors, make_form_error(DefaultFormMessage, "Format"))
            /\ fres' = FormResultErrors(ferrors')
            /\ fbind' = "failed"
            /\ fpc' = "done"
       ELSE /\ fbind' = "ok"
            /\ fpc' = "validate"
            /\ UNCHANGED <<ferrors, fres>>
    /\ UNCHANGED <<fcfg, fin, fkv, fbindErrs, fvr, fvrErrs>>

\* a key-value loop that records the rejected pair and goes on
FormKvSet_no_return ==
  /\ fpc = "bind" /\ Strategy(fcfg) = "kv"
  /\ fkv <= Len(fin)
  /\ LET key == fin[fkv][1]
         r == Derived_set(fform, key, fin[fkv][2])
     IN /\ ftrace' = Append(ftrace, <<"set", key>>)
        /\ fform' = r.form
        /\ ferrors' = IF r.ok THEN ferrors
                      ELSE ErrorsAdd(ferrors, make_form_error(<<"unknown or invalid field: ", key>>, "Format"))
        /\ fkv' = fkv + 1
        /\ UNCHANGED <<fres, fbind, fpc>>
  /\ UNCHANGED <<fcfg, fin, fbindErrs, fvr, fvrErrs>>

\* stage 1, strategy (c): one iteration of  for (kv : in) Derived::set(form, kv.first, kv.second)
FormKvSet ==
  /\ fpc = "bind" /\ Strategy(fcfg) = "kv"
  /\ fkv <= Len(fin)
  /\ LET key == fin[fkv][1]
         r == Derived_set(fform, key, fin[fkv][2])
     IN /\ ftrace' = Append(ftrace, <<"set", key>>)
        /\ fform' = r.form
        /\ IF ~r.ok
           THEN /\ ferrors' = ErrorsAdd(ferrors,
                                make_form_error(<<"unknown or invalid field: ", key>>, "Format"))
                /\ fres' = FormResultErrors(ferrors')
                /\ fbind' = "failed"
                /\ fpc' = "done"
                /\ UNCHANGED fkv
           ELSE /\ fkv' = fkv + 1
                /\ UNCHANGED <<ferrors, fres, fbind, fpc>>
  /\ UNCHANGED <<fcfg, fin, fbindErrs, fvr, fvrErrs>>

\* stage 1, strategy (c): the loop has gone through every pair
FormKvDone ==
  /\ fpc = "bind" /\ Strategy(fcfg) = "kv"
  /\ fkv > Len(fin)
  /\ fbind' = "ok"
  /\ fpc' = "validate"
  /\ UNCHANGED <<fcfg, fin, fform, ferrors, fkv, fbindErrs, fvr, fvrErrs, ftrace, fres>>

\* a validate stage that merges the schema errors and carries on to clean
FormSchemaValidate_no_return ==
  /\ fpc = "validate"
  /\ LET vr == Schema_validate(DerivedSchema, fform)
     IN /\ ftrace' = Append(ftrace, <<"validate">>)
        /\ fvrErrs' = vr
        /\ fvr' = IF vr = <<>> THEN "ok" ELSE "failed"
        /\ ferrors' = ErrorsMerge(ferrors, vr)
        /\ fpc' = "clean"
        /\ UNCHANGED fres
  /\ UNCHANGED <<fcfg, fin, fform, fkv, fbind, fbindErrs>>

\* stage 2: vr = schema_ref().validate(form); on errors merge and return
FormSchemaValidate ==
  /\ fpc = "validate"
  /\ LET vr == Schema_validate(DerivedSchema, fform)
     IN /\ ftrace' = Append(ftrace, <<"validate">>)
        /\ fvrErrs' = vr
        /\ IF vr # <<>>
           THEN /\ ferrors' = ErrorsMerge(ferrors, vr)
                /\ fres' = FormResultErrors(ferrors')
                /\ fvr' = "failed"
                /\ fpc' = "done"
           ELSE /\ fvr' = "ok"
                /\ fpc' = "clean"
                /\ UNCHANGED <<ferrors, fres>>
  /\ UNCHANGED <<fcfg, fin, fform, fkv, fbind, fbindErrs>>

\* stage 3: return form.clean() if Derived has clean(), else the form itself
FormClean ==
  /\ fpc = "clean"
  /\ IF fcfg.clean
     THEN /\ ftrace' = Append(ftrace, <<"clean">>)
          /\ fres' = FormResultValue(Derived_clean(fform))
     ELSE /\ fres' = FormResultValue([kind |-> "record", rec |-> fform])
          /\ UNCHANGED ftrace
  /\ fpc' = "done"
  /\ UNCHANGED <<fcfg, fin, fform, ferrors, fkv, fbind, fbindErrs, fvr, fvrErrs>>

NextForm ==
  FormValidateCall \/ FormBind3 \/ FormBind2 \/ FormKvSet \/ FormKvDone \/ FormSchemaValidate \/ FormClean

(***************************************************************************)
(* The cached schema: the function-local  static const Schema<Derived>     *)
(* cached = Derived::schema();  of BaseModel<Derived>::schema_ref and of   *)
(* Form<Derived>::schema_ref.  Each static has its own initialisation      *)
(* guard: a thread that finds it uninitialised takes it and runs the       *)
(* initialiser, a thread that finds it taken blocks, and a thread that     *)
(* finds it complete goes on.                                              *)
(***************************************************************************)
NumThreads == 2
MaxCalls == 2

Threads == 1..NumThreads
Facades == {"BaseModel", "Form"}
\* the public members that reach schema_ref()
EntryPoints == {"BaseModel::validate()", "BaseModel::validate(obj)", "BaseModel::is_valid",
                "BaseModel::schema", "Form::validate", "Form::validate_kv", "Form::schema"}
EntryFacade(e) ==
  IF e \in {"BaseModel::validate()", "BaseModel::validate(obj)", "BaseModel::is_valid", "BaseModel::schema"}
  THEN "BaseModel" ELSE "Form"

NotSeen == [facade |-> "none", schema |-> <<>>, waited |-> FALSE]

VARIABLES
  cguard,    \* per static: "uninit", "running", "done"
  ccached,   \* per static: the checks its storage holds so far
  cbuilt,    \* per static: how many times its initialiser called Derived::schema()
  tpc,       \* per thread: "idle", "enter", "wait", "construct", "use"
  tfacade,   \* per thread: whose schema_ref() it is in
  tcalls,    \* per thread: calls made so far
  twaited,   \* per thread: it blocked on the guard during the current call
  tseen      \* per thread: the static it was handed last and the schema read from it

cacheVars == <<cguard, ccached, cbuilt, tpc, tfacade, tcalls, twaited, tseen>>

InitCache ==
  /\ cguard = [f \in Facades |-> "uninit"]
  /\ ccached = [f \in Facades |-> <<>>]
  /\ cbuilt = [f \in Facades |-> 0]
  /\ tpc = [t \in Threads |-> "idle"]
  /\ tfacade = [t \in Threads |-> "BaseModel"]
  /\ tcalls = [t \in Threads |-> 0]
  /\ twaited = [t \in Threads |-> FALSE]
  /\ tseen = [t \in Threads |-> NotSeen]

\* a thread calls one of the entry points, which calls schema_ref()
CallEntry(t) ==
  \E e \in EntryPoints :
    /\ tpc[t] = "idle"
    /\ tcalls[t] < MaxCalls
    /\ tpc' = [tpc EXCEPT ![t] = "enter"]
    /\ tfacade' = [tfacade EXCEPT ![t] = EntryFacade(e)]
    /\ tcalls' = [tcalls EXCEPT ![t] = @ + 1]
    /\ twaited' = [twaited EXCEPT ![t] = FALSE]
    /\ UNCHANGED <<cguard, ccached, cbuilt, tseen>>

\* the static is uninitialised: the thread takes the guard and calls Derived::schema()
GuardAcquire(t) ==
  /\ tpc[t] = "enter"
  /\ cguard[tfacade[t]] = "uninit"
  /\ cguard' = [cguard EXCEPT ![tfacade[t]] = "running"]
  /\ cbuilt' = [cbuilt EXCEPT ![tfacade[t]] = @ + 1]
  /\ tpc' = [tpc EXCEPT ![t] = "construct"]
  /\ UNCHANGED <<ccached, tfacade, tcalls, twaited, tseen>>

\* the static is being initialised by another thread: the thread blocks
GuardWait(t) ==
  /\ tpc[t] = "enter"
  /\ cguard[tfacade[t]] = "running"
  /\ tpc' = [tpc EXCEPT ![t] = "wait"]
  /\ twaited' = [twaited EXCEPT ![t] = TRUE]
  /\ UNCHANGED <<cguard, ccached, cbuilt, tfacade, tcalls, tseen>>

\* the initialiser fills the storage of cached, one check at a time
ConstructStep(t) ==
  /\ tpc[t] = "construct"
  /\ Len(ccached[tfacade[t]]) < Len(DerivedSchema)
  /\ ccached' = [ccached EXCEPT ![tfacade[t]] = Append(@, DerivedSchema[Len(@) + 1])]
  /\ UNCHANGED <<cguard, cbuilt, tpc, tfacade, tcalls, twaited, tseen>>

\* the initialiser has finished: the guard is released as complete
ConstructDone(t) ==
  /\ tpc[t] = "construct"
  /\ Len(ccached[tfacade[t]]) = Len(DerivedSchema)
  /\ cguard' = [cguard EXCEPT ![tfacade[t]] = "done"]
  /\ tpc' = [tpc EXCEPT ![t] = "use"]
  /\ UNCHANGED <<ccached, cbuilt, tfacade, tcalls, twaited, tseen>>

\* a guard that lets a thread through while another thread is initialising
GuardPass_unlocked(t) ==
  /\ tpc[t] \in {"enter", "wait"}
  /\ cguard[tfacade[t]] \in {"running", "done"}
  /\ tpc' = [tpc EXCEPT ![t] = "use"]
  /\ UNCHANGED <<cguard, ccached, cbuilt, tfacade, tcalls, twaited, tseen>>

\* the static is complete (at once, or after the wait): schema_ref() returns the reference
GuardPass(t) ==
  /\ tpc[t] \in {"enter", "wait"}
  /\ cguard[tfacade[t]] = "done"
  /\ tpc' = [tpc EXCEPT ![t] = "use"]
  /\ UNCHANGED <<cguard, ccached, cbuilt, tfacade, tcalls, twaited, tseen>>

\* the caller reads the schema through the reference (validate, or hands it out)
UseSchema(t) ==
  /\ tpc[t] = "use"
  /\ tseen' = [tseen EXCEPT ![t] = [facade |-> tfacade[t], schema |-> ccached[tfacade[t]],
                                     waited |-> twaited[t]]]
  /\ tpc' = [tpc EXCEPT ![t] = "idle"]
  /\ UNCHANGED <<cguard, ccached, cbuilt, tfacade, tcalls, twaited>>

NextCache ==
  \E t \in Threads :
    CallEntry(t) \/ GuardAcquire(t) \/ GuardWait(t) \/ ConstructStep(t) \/ ConstructDone(t) \/ GuardPass(t) \/ UseSchema(t)

(***************************************************************************)
(* Validator<std::string> and Validator<int> in use: validate(field,       *)
(* value), a chain of rule helpers, result().                              *)
(***************************************************************************)
MaxChain == 3

ValidatorTypes == {"string", "int"}
\* "a@b.c", "a@b@c.com", "a@@b.c", "ab.c@d" and a few more
ScenarioStrings == {<<"a", "@", "b", ".", "c">>,
                    <<"a", "@", "b", "@", "c", ".", "c", "o", "m">>,
                    <<"a", "@", "@", "b", ".", "c">>,
                    <<"a", "b", ".", "c", "@", "d">>,
                    <<"a", "@", "b", "c", ".">>,
                    <<" ", " ", " ">>}
StringValues == TextsUpTo({"a", "@", ".", " "}, MaxTextLen) \cup ScenarioStrings
IntValues == 0..4
IntBoundValues == {1, 3}

\* the rule helpers of Validator<std::string>
StringHelpers ==
  {rules_required(Str("email is required")), rules_required(Str("field is required")),
   rules_email(Str("invalid email format")),
   rules_length_min(1, Str("length is below minimum")), rules_length_min(2, Str("too short")),
   rules_length_max(1, Str("too long")), rules_length_max(2, Str("length is above maximum")),
   rules_length_max(120, Str("length is above maximum"))}

\* the rule helpers of Validator<int>
IntHelpers ==
  {rules_min(m, Str("value is below minimum")) : m \in IntBoundValues}
  \cup {rules_max(m, Str("value is above maximum")) : m \in IntBoundValues}
  \cup {rules_between(a, b, Str("value is out of range")) : a \in IntBoundValues, b \in IntBoundValues}

HelpersOf(type) == IF type = "string" THEN StringHelpers ELSE IntHelpers

VARIABLES
  vd,       \* the Validator object {field_, value_, rules_}
  vdType,   \* its T: "string", "int", or "none" before validate() is called
  vdOp,     \* the last operation on it
  vdRes,    \* the errors of the ValidationResult the last result() returned
  vdMarks   \* size of the accumulator after each rule of that result()

validatorVars == <<vd, vdType, vdOp, vdRes, vdMarks>>

InitValidator ==
  /\ vd = Validator("", <<>>, <<>>)
  /\ vdType = "none"
  /\ vdOp = "none"
  /\ vdRes = <<>>
  /\ vdMarks = <<>>

\* validate("email", text)
ValidateString ==
  \E t \in StringValues :
    /\ vd' = Validator("email", t, <<>>)
    /\ vdType' = "string"
    /\ vdOp' = "new"
    /\ vdRes' = <<>> /\ vdMarks' = <<>>

\* validate("age", n)
ValidateInt ==
  \E n \in IntValues :
    /\ vd' = Validator("age", n, <<>>)
    /\ vdType' = "int"
    /\ vdOp' = "new"
    /\ vdRes' = <<>> /\ vdMarks' = <<>>

\* Validator::required / email / length_min / length_max / min / max /
\* between: each is rule(rules::x(...)), which pushes onto rules_
ValidatorRule ==
  /\ vdType # "none"
  /\ Len(vd.rules_) < MaxChain
  /\ \E r \in HelpersOf(vdType) : vd' = [vd EXCEPT !.rules_ = Append(@, r)]
  /\ vdOp' = "rule"
  /\ vdRes' = <<>> /\ vdMarks' = <<>>
  /\ UNCHANGED vdType

\* Validator::result()
ValidatorResult ==
  /\ vdType # "none"
  /\ vdRes' = Validator_result(vd)
  /\ vdMarks' = [i \in 1..Len(vd.rules_) |->
                    Len(apply_rules(vd.field_, vd.value_, SubSeq(vd.rules_, 1, i)))]
  /\ vdOp' = "result"
  /\ UNCHANGED <<vd, vdType>>

NextValidator == ValidateString \/ ValidateInt \/ ValidatorRule \/ ValidatorResult

(***************************************************************************)
(* Repeated execution: result() called again on the same Validator or      *)
(* ParsedValidator, validate() called again on the same Schema and record. *)
(* result() and validate() are const members; each call default-constructs *)
(* its own ValidationErrors and fills it.                                  *)
(***************************************************************************)
MaxRuns == 2

RepeatChains == {EmailRules \o <<rules_length_min(2, Str("too short"))>>,
                 <<rules_required(Str("field is required"))>>,
                 <<rules_email(Str("invalid email")), rules_length_max(1, Str("too long"))>>}
RepeatIntChains == {AgeRules,
                    <<rules_min(18, Str("value is below minimum")), rules_max(120, Str("value is above maximum"))>>,
                    <<CustomRule(Str("custom")), NullRule>>}
RepeatSchemas ==
  LET fa == CHOOSE a \in FieldFnArgs : TRUE
      sa == CHOOSE a \in FieldSpecArgs : TRUE
      pa == CHOOSE a \in ParsedSpecArgs : TRUE
      ca == CHOOSE a \in CheckArgs : TRUE
  IN {<<MakeCheck("field_result", fa), MakeCheck("field_spec", sa),
        MakeCheck("parsed_spec", pa), MakeCheck("check_out", ca)>>,
      <<MakeCheck("field_builder", fa), MakeCheck("parsed_builder", pa)>>,
      <<MakeCheck("parsed_result", pa), MakeCheck("check_ret", ca)>>}

VARIABLES
  rpKind,   \* what is being run: "none", "validator", "parsed", "schema"
  rpObj,    \* the object (and, for a schema, the record; for a ParsedValidator, the message)
  rpRuns    \* the error collections returned by the calls made on it so far

repeatVars == <<rpKind, rpObj, rpRuns>>

InitRepeat ==
  /\ rpKind = "none"
  /\ rpObj = <<>>
  /\ rpRuns = <<>>

\* auto v = validate("email", text).<rules>;
RepeatValidator ==
  \E t \in StringValues, chain \in RepeatChains :
    /\ rpKind' = "validator"
    /\ rpObj' = Validator("email", t, chain)
    /\ rpRuns' = <<>>

\* auto v = validate_parsed<int>("age", text).<rules>;
RepeatParsed ==
  \E t \in ParsedTexts, chain \in RepeatIntChains, msg \in ParseMessages :
    /\ rpKind' = "parsed"
    /\ rpObj' = [v |-> [field_ |-> "age", input_ |-> t, rules_ |-> chain], msg |-> msg]
    /\ rpRuns' = <<>>

\* auto s = schema<T>().<registrations>; T obj{...};
RepeatSchema ==
  \E checks \in RepeatSchemas, obj \in Records :
    /\ rpKind' = "schema"
    /\ rpObj' = [checks |-> checks, obj |-> obj]
    /\ rpRuns' = <<>>

\* an accumulator that survives from one call to the next
FreshErrors_kept(earlier) == IF earlier = <<>> THEN <<>> ELSE earlier[Len(earlier)]

\* the local  ValidationErrors errors;  /  ValidationErrors out;  of
\* apply_rules, ParsedValidator::result and Schema::validate: empty at every
\* call, whatever earlier calls returned
FreshErrors(earlier) == <<>>

\* one call of Validator::result / ParsedValidator::result / Schema::validate
RunOnce(kind, obj, earlier) ==
  CASE kind = "validator" ->
         apply_rules_into(obj.field_, obj.value_, obj.rules_, FreshErrors(earlier))
    [] kind = "parsed" -> result_into(obj.v, FreshErrors(earlier), obj.msg).out
    [] kind = "schema" -> SchemaRun(obj.checks, obj.obj, 1, FreshErrors(earlier), <<>>).out

\* v.result() / s.validate(obj) once more, object and input untouched
RepeatRun ==
  /\ rpKind # "none"
  /\ Len(rpRuns) < MaxRuns
  /\ rpRuns' = Append(rpRuns, RunOnce(rpKind, rpObj, rpRuns))
  /\ UNCHANGED <<rpKind, rpObj>>

NextRepeat == RepeatValidator \/ RepeatParsed \/ RepeatSchema \/ RepeatRun

(***************************************************************************)
(* Error collections in use: two ValidationResult objects A and B, each    *)
(* wrapping a ValidationErrors, operated on through either class.          *)
(* ValidationResult's add / merge / clear forward to its errors member.    *)
(***************************************************************************)
MaxErrs == 3

Collections == {"A", "B"}
Interfaces == {"ValidationErrors", "ValidationResult"}
ErrRequired == ValidationError("email", "Required", Str("email is required"), NoMeta)
ErrBetween ==
  ValidationError("age", "Between", Str("age out of range"),
                  meta_kv(<< <<"min", to_string_int(18)>>, <<"max", to_string_int(120)>>,
                             <<"got", to_string_int(10)>> >>))
ErrorPool == {ErrRequired, ErrBetween}

NoErrOp == [op |-> "none", via |-> "", dst |-> "", src |-> "", dstBefore |-> <<>>, srcBefore |-> <<>>]

VARIABLES
  ec,      \* per collection: the errors_ vector
  eLast,   \* the last operation: its name, the class it went through, the
           \* collections involved and what they held before it
  er       \* the ValidationResult the last named constructor returned

errorsVars == <<ec, eLast, er>>

NoResult == [ctor |-> "none", arg |-> <<>>, errors |-> <<>>]

InitErrors ==
  /\ ec = [c \in Collections |-> <<>>]
  /\ eLast = NoErrOp
  /\ er = NoResult

ErrOp(op, via, dst, src) ==
  [op |-> op, via |-> via, dst |-> dst, src |-> src,
   dstBefore |-> ec[dst], srcBefore |-> IF src = "" THEN <<>> ELSE ec[src]]

\* add(ValidationError)
ErrAddError ==
  \E c \in Collections, via \in Interfaces, e \in ErrorPool :
    /\ Len(ec[c]) < MaxErrs
    /\ ec' = [ec EXCEPT ![c] = ErrorsAdd(@, e)]
    /\ eLast' = ErrOp("add(error)", via, c, "")
    /\ er' = NoResult

\* add(field, code, message)
ErrAdd3 ==
  \E c \in Collections, via \in Interfaces :
    /\ Len(ec[c]) < MaxErrs
    /\ ec' = [ec EXCEPT ![c] = ErrorsAdd(@, ValidationError(ErrRequired.field, ErrRequired.code,
                                                            ErrRequired.message, NoMeta))]
    /\ eLast' = ErrOp("add(field, code, message)", via, c, "")
    /\ er' = NoResult

\* add(field, code, message, meta)
ErrAdd4 ==
  \E c \in Collections, via \in Interfaces :
    /\ Len(ec[c]) < MaxErrs
    /\ ec' = [ec EXCEPT ![c] = ErrorsAdd(@, ValidationError(ErrBetween.field, ErrBetween.code,
                                                            ErrBetween.message, ErrBetween.meta))]
    /\ eLast' = ErrOp("add(field, code, message, meta)", via, c, "")
    /\ er' = NoResult

\* dst.merge(src), src a different object, taken by const reference
ErrMergeCopy ==
  \E dst \in Collections, src \in Collections, via \in Interfaces :
    /\ dst # src
    /\ Len(ec[dst]) + Len(ec[src]) <= MaxErrs
    /\ ec' = [ec EXCEPT ![dst] = ErrorsMerge(@, ec[src])]
    /\ eLast' = ErrOp("merge(const&)", via, dst, src)
    /\ er' = NoResult

\* dst.merge(std::move(src))
ErrMergeMove ==
  \E dst \in Collections, src \in Collections, via \in Interfaces :
    LET m == ErrorsMergeMove(ec[dst], ec[src])
    IN /\ dst # src
       /\ Len(ec[dst]) + Len(ec[src]) <= MaxErrs
       /\ ec' = [ec EXCEPT ![dst] = m.self, ![src] = m.other]
       /\ eLast' = ErrOp("merge(&&)", via, dst, src)
       /\ er' = NoResult

\* clear()
ErrClear ==
  \E c \in Collections, via \in Interfaces :
    /\ ec' = [ec EXCEPT ![c] = ErrorsClear(@)]
    /\ eLast' = ErrOp("clear", via, c, "")
    /\ er' = NoResult

\* ValidationErrors::reserve(n): capacity only, which the class does not expose
ErrReserve ==
  \E c \in Collections :
    /\ ec' = ec
    /\ eLast' = ErrOp("reserve", "ValidationErrors", c, "")
    /\ er' = NoResult

\* errors[i] = e through the non-const operator[] (or all_mut()[i], *begin())
ErrIndexAssign ==
  \E c \in Collections, e \in ErrorPool :
    \E i \in 1..Len(ec[c]) :
      /\ ec' = [ec EXCEPT ![c][i] = e]
      /\ eLast' = ErrOp("operator[]", "ValidationErrors", c, "")
      /\ er' = NoResult

\* all_mut() hands out the vector itself: all_mut().erase(all_mut().begin())
ErrAllMutErase ==
  \E c \in Collections :
    /\ ec[c] # <<>>
    /\ ec' = [ec EXCEPT ![c] = Tail(@)]
    /\ eLast' = ErrOp("all_mut", "ValidationErrors", c, "")
    /\ er' = NoResult

\* ValidationResult::success()
ErrSuccess ==
  /\ er' = [ctor |-> "success", arg |-> <<>>, errors |-> ValidationResult_success]
  /\ eLast' = NoErrOp
  /\ UNCHANGED ec

\* ValidationResult::failure(e), e a copy of one of the collections
ErrFailure ==
  \E c \in Collections :
    /\ er' = [ctor |-> "failure", arg |-> ec[c], errors |-> ValidationResult_failure(ec[c])]
    /\ eLast' = NoErrOp
    /\ UNCHANGED ec

\* ValidationResult::from_errors(e), e a copy of one of the collections
ErrFromErrors ==
  \E c \in Collections :
    /\ er' = [ctor |-> "from_errors", arg |-> ec[c], errors |-> ValidationResult_from_errors(ec[c])]
    /\ eLast' = NoErrOp
    /\ UNCHANGED ec

NextErrors ==
  \/ ErrAddError \/ ErrAdd3 \/ ErrAdd4 \/ ErrMergeCopy \/ ErrMergeMove \/ ErrClear \/ ErrReserve
  \/ ErrIndexAssign \/ ErrAllMutErase
  \/ ErrSuccess \/ ErrFailure \/ ErrFromErrors

(***************************************************************************)
(* to_string(ValidationErrorCode): the stable identifier of an error code. *)
(* The enum has underlying type std::uint8_t, so a value outside the nine  *)
(* enumerators can be handed in; it takes the default branch.              *)
(***************************************************************************)
UndeclaredCode == "static_cast<ValidationErrorCode>(9)"
CodeValues == ErrorCodes \cup {UndeclaredCode}

\* a to_string whose LengthMin case was copied from LengthMax
to_string_copied_case(code) ==
  CASE code = "Required" -> Str("required")
    [] code = "Min" -> Str("min")
    [] code = "Max" -> Str("max")
    [] code = "LengthMin" -> Str("length_max")
    [] code = "LengthMax" -> Str("length_max")
    [] code = "Between" -> Str("between")
    [] code = "Format" -> Str("format")
    [] code = "InSet" -> Str("in_set")
    [] code = "Custom" -> Str("custom")
    [] OTHER -> Str("unknown")

\* to_string(ValidationErrorCode)
to_string(code) ==
  CASE code = "Required" -> Str("required")
    [] code = "Min" -> Str("min")
    [] code = "Max" -> Str("max")
    [] code = "LengthMin" -> Str("length_min")
    [] code = "LengthMax" -> Str("length_max")
    [] code = "Between" -> Str("between")
    [] code = "Format" -> Str("format")
    [] code = "InSet" -> Str("in_set")
    [] code = "Custom" -> Str("custom")
    [] OTHER -> Str("unknown")

VARIABLES
  tsSeen    \* the (code, identifier) pairs to_string has produced so far

codesVars == <<tsSeen>>

InitCodes == tsSeen = {}

\* a caller serialises an error code
CodeToString ==
  \E c \in CodeValues :
    tsSeen' = tsSeen \cup {[code |-> c, text |-> to_string(c)]}

NextCodes == CodeToString

(***************************************************************************)
(* The registration shapes side by side: three schemas receive the same    *)
(* registrations, schema A through callables returning a ValidationResult, *)
(* schema B through callables returning the unexecuted builder, schema C   *)
(* through FieldSpec / ParsedSpec rule packs; then all three validate the  *)
(* same record.                                                            *)
(***************************************************************************)
ShapeFieldArgs == FieldFnArgs \cup FieldSpecArgs
ShapeParsedArgs ==
  {[NoCheckArgs EXCEPT !.name = "age", !.member = "age", !.rules = AgeRules, !.msg = m] :
     m \in ParseMessages}

VARIABLES
  shA,      \* checks_ of the schema registered with ValidationResult callables
  shB,      \* checks_ of the schema registered with builder callables
  shC,      \* checks_ of the schema registered with rule packs
  shOp,     \* the last operation
  shObj,    \* the record handed to the last validate
  shOut     \* the errors each schema returned for it: [A, B, C]

shapesVars == <<shA, shB, shC, shOp, shObj, shOut>>

NoShapeOut == [A |-> <<>>, B |-> <<>>, C |-> <<>>]

InitShapes ==
  /\ shA = <<>> /\ shB = <<>> /\ shC = <<>>
  /\ shOp = "new"
  /\ shObj = NoRecord
  /\ shOut = NoShapeOut

\* .field(name, member, x) on each schema, x in that schema's shape
ShapesField ==
  \E a \in ShapeFieldArgs :
    /\ Len(shA) < MaxChecks
    /\ shA' = Append(shA, MakeCheck("field_result", a))
    /\ shB' = Append(shB, MakeCheck("field_builder", a))
    /\ shC' = Append(shC, MakeCheck("field_spec", a))
    /\ shOp' = "field"
    /\ shObj' = NoRecord /\ shOut' = NoShapeOut

\* .parsed<int>(name, member, x) on each schema, x in that schema's shape
ShapesParsed ==
  \E a \in ShapeParsedArgs :
    /\ Len(shA) < MaxChecks
    /\ shA' = Append(shA, MakeCheck("parsed_result", a))
    /\ shB' = Append(shB, MakeCheck("parsed_builder", a))
    /\ shC' = Append(shC, MakeCheck("parsed_spec", a))
    /\ shOp' = "parsed"
    /\ shObj' = NoRecord /\ shOut' = NoShapeOut

\* validate(obj) on each schema
ShapesValidate ==
  \E obj \in Records :
    /\ shObj' = obj
    /\ shOut' = [A |-> Schema_validate(shA, obj), B |-> Schema_validate(shB, obj),
                 C |-> Schema_validate(shC, obj)]
    /\ shOp' = "validate"
    /\ UNCHANGED <<shA, shB, shC>>

NextShapes == ShapesField \/ ShapesParsed \/ ShapesValidate

(***************************************************************************)
(* The free functions apply_rules_into and apply_rules over a caller-built *)
(* std::vector<Rule<T>>, for T = std::string, int, std::string_view and    *)
(* std::optional<int>.                                                     *)
(***************************************************************************)
MaxSeq == 3

ApplyTypes == {"string", "int", "string_view", "optional"}
ApplyFieldOf(type) ==
  CASE type = "string" -> "email"
    [] type = "int" -> "age"
    [] type = "string_view" -> "name"
    [] OTHER -> "nickname"

EmailScenarios == {<<"a", "@", "b", ".", "c">>, <<"a", "@", ".", "b", ".", "c">>,
                   <<"a", "@", "b", ".">>, <<"a", "@", ".", "b">>, <<"a", "@", "b", ".", "c", ".">>}
AllowedSet == << <<"a">>, <<"a", "@", "b", ".", "c">> >>
Optionals == {[has_value |-> FALSE, v |-> 0], [has_value |-> TRUE, v |-> 0]}

ApplyValuesOf(type) ==
  CASE type = "string" -> TextsUpTo({"a", "@", "."}, MaxTextLen) \cup EmailScenarios
    [] type = "int" -> IntValues
    [] type = "string_view" -> {<<>>, Str("a")}
    [] OTHER -> Optionals

ApplyRulesOf(type) ==
  {NullRule, CustomRule(Str("first custom")), CustomRule(Str("second custom"))} \cup
  CASE type = "string" ->
         {rules_required(Str("field is required")), rules_email(Str("invalid email format")),
          rules_length_min(2, Str("length is below minimum")),
          rules_length_max(1, Str("length is above maximum")),
          rules_in_set(AllowedSet, Str("value is not allowed"))}
    [] type = "int" ->
         {rules_min(1, Str("value is below minimum")), rules_max(3, Str("value is above maximum")),
          rules_between(1, 3, Str("value is out of range"))}
    [] type = "string_view" -> {rules_required_sv(Str("field is required"))}
    [] OTHER -> {rules_required_optional(Str("field is required"))}

VARIABLES
  apType,   \* the T of the call: "none" before any vector is built
  apField,  \* the field name handed to the call
  apValue,  \* the value handed to the call
  apRules,  \* the std::vector<Rule<T>> handed to the call
  apOp,     \* the last operation
  apPre,    \* the accumulator handed to the last apply_rules_into
  apOut,    \* that accumulator after the call
  apTrace,  \* that accumulator after each rule of the vector
  apRes     \* the errors of the ValidationResult the last apply_rules returned

applyVars == <<apType, apField, apValue, apRules, apOp, apPre, apOut, apTrace, apRes>>

InitApply ==
  /\ apType = "none" /\ apField = "" /\ apValue = <<>> /\ apRules = <<>>
  /\ apOp = "none"
  /\ apPre = <<>> /\ apOut = <<>> /\ apTrace = <<>> /\ apRes = <<>>

\* the caller picks a field, a value and an empty rule vector
ApplyNew ==
  \E type \in ApplyTypes :
    \E value \in ApplyValuesOf(type) :
      /\ apType' = type
      /\ apField' = ApplyFieldOf(type)
      /\ apValue' = value
      /\ apRules' = <<>>
      /\ apOp' = "new"
      /\ apPre' = <<>> /\ apOut' = <<>> /\ apTrace' = <<>> /\ apRes' = <<>>

\* rules.push_back(r)
ApplyPushRule ==
  /\ apType # "none"
  /\ Len(apRules) < MaxSeq
  /\ \E r \in ApplyRulesOf(apType) : apRules' = Append(apRules, r)
  /\ apOp' = "push"
  /\ apPre' = <<>> /\ apOut' = <<>> /\ apTrace' = <<>> /\ apRes' = <<>>
  /\ UNCHANGED <<apType, apField, apValue>>

\* apply_rules_into(field, value, rules, out) on an accumulator that may
\* already hold errors
ApplyRulesInto ==
  \E pre \in PreOuts :
    /\ apType # "none"
    /\ apPre' = pre
    /\ apOut' = apply_rules_into(apField, apValue, apRules, pre)
    /\ apTrace' = [i \in 1..Len(apRules) |->
                     apply_rules_into(apField, apValue, SubSeq(apRules, 1, i), pre)]
    /\ apRes' = <<>>
    /\ apOp' = "apply_rules_into"
    /\ UNCHANGED <<apType, apField, apValue, apRules>>

\* apply_rules(field, value, rules)
ApplyRules ==
  /\ apType # "none"
  /\ apRes' = apply_rules(apField, apValue, apRules)
  /\ apPre' = <<>> /\ apOut' = <<>> /\ apTrace' = <<>>
  /\ apOp' = "apply_rules"
  /\ UNCHANGED <<apType, apField, apValue, apRules>>

NextApply == ApplyNew \/ ApplyPushRule \/ ApplyRulesInto \/ ApplyRules

(***************************************************************************)
(* Specifications                                                          *)
(***************************************************************************)
vars == <<parsedVars, schemaVars, formVars, cacheVars, validatorVars, repeatVars, errorsVars, codesVars, shapesVars, applyVars>>

\* every part in its state after construction
Init ==
  /\ InitParsed /\ InitSchema /\ fcfg = KvFormConfig /\ FormNotCalled /\ InitCache
  /\ InitValidator /\ InitRepeat /\ InitErrors /\ InitCodes /\ InitShapes /\ InitApply

SpecParsed == Init /\ [][NextParsed /\ UNCHANGED <<schemaVars, formVars, cacheVars, validatorVars, repeatVars, errorsVars, codesVars, shapesVars, applyVars>>]_vars

SpecSchema == Init /\ [][NextSchema /\ UNCHANGED <<parsedVars, formVars, cacheVars, validatorVars, repeatVars, errorsVars, codesVars, shapesVars, applyVars>>]_vars

\* the Form workflow, for every (Derived, Input) pairing that compiles
InitAnyForm == InitParsed /\ InitSchema /\ InitForm /\ InitCache /\ InitValidator /\ InitRepeat /\ InitErrors /\ InitCodes /\ InitShapes /\ InitApply

SpecForm == InitAnyForm /\ [][NextForm /\ UNCHANGED <<parsedVars, schemaVars, cacheVars, validatorVars, repeatVars, errorsVars, codesVars, shapesVars, applyVars>>]_vars

SpecCache == Init /\ [][NextCache /\ UNCHANGED <<parsedVars, schemaVars, formVars, validatorVars, repeatVars, errorsVars, codesVars, shapesVars, applyVars>>]_vars

SpecValidator == Init /\ [][NextValidator /\ UNCHANGED <<parsedVars, schemaVars, formVars, cacheVars, repeatVars, errorsVars, codesVars, shapesVars, applyVars>>]_vars

SpecRepeat ==
  Init /\ [][NextRepeat /\ UNCHANGED <<parsedVars, schemaVars, formVars, cacheVars, validatorVars, errorsVars, codesVars, shapesVars, applyVars>>]_vars

SpecErrors ==
  Init /\ [][NextErrors /\ UNCHANGED <<parsedVars, schemaVars, formVars, cacheVars, validatorVars, repeatVars, codesVars, shapesVars, applyVars>>]_vars

SpecCodes ==
  Init /\ [][NextCodes /\ UNCHANGED <<parsedVars, schemaVars, formVars, cacheVars, validatorVars, repeatVars, errorsVars, shapesVars, applyVars>>]_vars

SpecShapes ==
  Init /\ [][NextShapes /\ UNCHANGED <<parsedVars, schemaVars, formVars, cacheVars, validatorVars, repeatVars, errorsVars, codesVars, applyVars>>]_vars

SpecApply ==
  Init /\ [][NextApply /\ UNCHANGED <<parsedVars, schemaVars, formVars, cacheVars, validatorVars, repeatVars, errorsVars, codesVars, shapesVars>>]_vars

(***************************************************************************)
(* Claims                                                                  *)
(***************************************************************************)
PVRan == pvOp \in {"result", "result_into"}
\* what the last call appended to the accumulator
PVAppended == SubSeq(pvOut, Len(pvBefore) + 1, Len(pvOut))

\* C2: when the parsing collaborator rejects the input text, result() /
\* result_into append exactly one error: field of the validator, code Format,
\* the supplied parse-failure message, meta with conversion_code and position
\* (and input iff the input text is non-empty); no typed rule is invoked.
C2_ParseFailureOneFormatError ==
  (PVRan /\ ~parse(pv.input_).ok) =>
     /\ IsPrefix(pvBefore, pvOut)
     /\ Len(PVAppended) = 1
     /\ LET e == PVAppended[1]
        IN /\ e.field = pv.field_
           /\ e.code = "Format"
           /\ e.message = pvMsg
           /\ {"conversion_code", "position"} \subseteq DOMAIN e.meta
           /\ DOMAIN e.meta \subseteq {"conversion_code", "position", "input"}
           /\ ("input" \in DOMAIN e.meta) <=> (pv.input_ # <<>>)
     /\ pvCalls = <<>>

C2_Witness ==
  /\ pvOp = "result"
  /\ pv.input_ = <<"a", "b", "c">>
  /\ pv.rules_ = <<rules_between(18, 120, Str("value is out of range"))>>
  /\ pvMsg = Str("age must be a number")
  /\ Len(pvOut) = 1 /\ pvOut[1].code = "Format"
  /\ pvOut[1].meta["position"] = <<"0">>

AgeOutOfRange ==
  ValidationError("age", "Between", Str("age out of range"),
                  [k \in {"min", "max", "got"} |->
                     CASE k = "min" -> <<"1", "8">>
                       [] k = "max" -> <<"1", "2", "0">>
                       [] k = "got" -> <<"1", "0">>])

\* C3: when the text parses to v, the call reports exactly the errors that the
\* same rule sequence reports on the typed value v, in the same order, and no
\* Format error; "10" under between(18,120,"age out of range") gives the one
\* Between error with meta min=18, max=120, got=10, and "25" gives none.
C3_ParsedEqualsTyped ==
  (PVRan /\ parse(pv.input_).ok) =>
     /\ IsPrefix(pvBefore, pvOut)
     /\ PVAppended = apply_rules(pv.field_, parse(pv.input_).value, pv.rules_)
     /\ \A i \in 1..Len(PVAppended) : PVAppended[i].code # "Format"
     /\ (pv.rules_ = <<rules_between(18, 120, Str("age out of range"))>> /\ pv.field_ = "age") =>
          /\ pv.input_ = <<"1", "0">> => PVAppended = <<AgeOutOfRange>>
          /\ pv.input_ = <<"2", "5">> => PVAppended = <<>>

C3_Witness ==
  /\ pvOp = "result"
  /\ pv.input_ = <<"1", "0">>
  /\ pv.rules_ = <<rules_between(18, 120, Str("age out of range"))>>
  /\ pvOut = <<AgeOutOfRange>>

\* the errors one check emits on its own
CheckErrors(c, obj) == CheckCall(c, obj, <<>>)

RECURSIVE ConcatCheckErrors(_, _, _)
ConcatCheckErrors(checks, obj, n) ==
  IF n = 0 THEN <<>>
  ELSE ConcatCheckErrors(checks, obj, n - 1) \o CheckErrors(checks[n], obj)

FailsAll == Record(EmptyText, EmptyText, TextPw, Text10)

\* C1: validate invokes every registered check exactly once, in registration
\* order, whether or not earlier checks reported, and returns the
\* concatenation in registration order of what each check emitted; three
\* field checks and one whole-object check that each fail once give 4 errors
\* in registration order.
C1_ValidateRunsEveryCheckInOrder ==
  sOp = "validate" =>
     /\ sCalls = [i \in 1..Len(checks_) |-> i]
     /\ sOut = ConcatCheckErrors(checks_, sObj, Len(checks_))
     /\ ( /\ Len(checks_) = 4
          /\ \A i \in 1..4 : Len(CheckErrors(checks_[i], sObj)) = 1 )
        => /\ Len(sOut) = 4
           /\ \A i \in 1..4 : <<sOut[i]>> = CheckErrors(checks_[i], sObj)

C1_Witness ==
  /\ sOp = "validate"
  /\ sObj = FailsAll
  /\ Len(checks_) = 4
  /\ checks_[1].form = "field_spec" /\ checks_[2].form = "parsed_spec"
  /\ checks_[3].form = "parsed_builder" /\ checks_[4].form = "check_out"
  /\ Len(sOut) = 4
  /\ sOut[1].code = "LengthMin" /\ sOut[2].code = "Between"
  /\ sOut[3].code = "Between" /\ sOut[4].code = "Custom"

(***************************************************************************)
(* Form workflow claims                                                    *)
(***************************************************************************)
FormDone == fpc = "done"
TraceHas(name) == \E i \in 1..Len(ftrace) : ftrace[i][1] = name
TraceCount(names) == Cardinality({i \in 1..Len(ftrace) : ftrace[i][1] \in names})
FormError(e) == e.field = "__form__" /\ e.code = "Format"

\* C4: every result of Form::validate is either a value with an empty error
\* collection or no value with a non-empty error collection, also when a
\* 3-parameter binder fails without appending an error.
C4_ValueXorErrors ==
  FormDone =>
     \/ fres.has_value /\ fres.errors = <<>>
     \/ ~fres.has_value /\ fres.errors # <<>>

C4_Witness ==
  /\ FormDone
  /\ Strategy(fcfg) = "bind3" /\ fbind = "failed" /\ fbindErrs = <<>>
  /\ ~fres.has_value
  /\ Len(fres.errors) = 1 /\ FormError(fres.errors[1])

\* C5: with the 3-parameter binder, a successful bind is followed by the schema
\* validation and the result's errors are the bind-stage errors followed by the
\* schema errors, so a call whose binder appended an error never ends as a
\* success carrying a value.
C5_BindErrorsReachResult ==
  (FormDone /\ Strategy(fcfg) = "bind3" /\ fbind = "ok") =>
     /\ TraceHas("validate")
     /\ fres.errors = fbindErrs \o fvrErrs
     /\ fbindErrs # <<>> => ~fres.has_value

KeysOf(in) == [i \in 1..Len(in) |-> in[i][1]]
SetEvents == SelectSeq(ftrace, LAMBDA e : e[1] = "set")
SetKeys == [i \in 1..Len(SetEvents) |-> SetEvents[i][2]]
Rejected(kv) == ~Derived_set(NoRecord, kv[1], kv[2]).ok
FirstRejected(in) ==
  IF \E i \in 1..Len(in) : Rejected(in[i])
  THEN CHOOSE i \in 1..Len(in) : Rejected(in[i]) /\ \A j \in 1..(i - 1) : ~Rejected(in[j])
  ELSE 0

\* C6: with the key-value setter the pairs are passed to set in input order,
\* once each, up to and including the first rejected pair; after a rejection no
\* later pair is set, neither the schema nor clean runs, and the result is a
\* failure with exactly one error: field "__form__", code Format, a message
\* ending in the rejected key.
C6_KvStopsAtFirstRejected ==
  (Strategy(fcfg) = "kv" /\ fpc # "idle") =>
     /\ IsPrefix(SetKeys, KeysOf(fin))
     /\ FormDone =>
          LET r == FirstRejected(fin)
          IN IF r = 0
             THEN SetKeys = KeysOf(fin) /\ TraceHas("validate")
             ELSE /\ SetKeys = SubSeq(KeysOf(fin), 1, r)
                  /\ ~TraceHas("validate") /\ ~TraceHas("clean")
                  /\ ~fres.has_value
                  /\ Len(fres.errors) = 1
                  /\ FormError(fres.errors[1])
                  /\ fres.errors[1].message = <<"unknown or invalid field: ", fin[r][1]>>

C6_Witness ==
  /\ FormDone /\ Strategy(fcfg) = "kv"
  /\ fin = << <<"email", BadEmail>>, <<"unknown_key", <<"x">>>> >>
  /\ ftrace = << <<"set", "email">>, <<"set", "unknown_key">> >>
  /\ Len(fres.errors) = 1
  /\ fres.errors[1].message[2] = "unknown_key"

\* C7: with the 2-parameter binder a binder failure ends the call with a
\* failure holding exactly one error, field "__form__", code Format; the schema
\* is not run and clean is not invoked.
C7_Bind2FailureOneFormError ==
  (FormDone /\ Strategy(fcfg) = "bind2" /\ fbind = "failed") =>
     /\ ~fres.has_value
     /\ Len(fres.errors) = 1
     /\ FormError(fres.errors[1])
     /\ ~TraceHas("validate") /\ ~TraceHas("clean")

C7_Witness ==
  /\ FormDone /\ Strategy(fcfg) = "bind2" /\ fbind = "failed"
  /\ ftrace = << <<"bind2">> >>
  /\ fres.errors = <<make_form_error(DefaultFormMessage, "Format")>>

StageOf(e) ==
  CASE e[1] \in {"bind3", "bind2", "set"} -> 1
    [] e[1] = "validate" -> 2
    [] e[1] = "clean" -> 3

\* C8: the stages run in the order bind, validate, clean, each at most once;
\* the schema runs only after the bind stage succeeded, clean only after a
\* successful bind and a schema validation without errors, and nothing runs
\* after a stage failed.
C8_StagesInOrderOnce ==
  /\ \A i, j \in 1..Len(ftrace) : i < j => StageOf(ftrace[i]) <= StageOf(ftrace[j])
  /\ TraceCount({"bind3", "bind2"}) <= 1
  /\ TraceCount({"validate"}) <= 1
  /\ TraceCount({"clean"}) <= 1
  /\ TraceHas("validate") => fbind = "ok"
  /\ TraceHas("clean") => fbind = "ok" /\ fvr = "ok" /\ fvrErrs = <<>>
  /\ fres.has_value => fbind = "ok" /\ fvr = "ok"
  /\ fbind = "failed" => FormDone /\ fvr = "pending"
  /\ fvr = "failed" => FormDone /\ ~TraceHas("clean")

C8_Witness ==
  /\ FormDone /\ fcfg.clean
  /\ ftrace = << <<"set", "email">>, <<"set", "age">>, <<"validate">>, <<"clean">> >>
  /\ fres.has_value /\ fres.value.kind = "cleaned"

(***************************************************************************)
(* Cached schema claims                                                    *)
(***************************************************************************)
Reached(f) == \E t \in Threads : tpc[t] = "use" /\ tfacade[t] = f

C10_SchemaFunctionCalledOnce ==
  cbuilt["BaseModel"] + cbuilt["Form"] <= 1

(***************************************************************************)
(* Validator and rule claims                                               *)
(***************************************************************************)
VRan == vdOp = "result"
\* what rule i of the chain appended during the last result()
Added(i) == SubSeq(vdRes, (IF i = 1 THEN 0 ELSE vdMarks[i - 1]) + 1, vdMarks[i])
RuleIdx == 1..Len(vd.rules_)

Scenario1Validator ==
  Validator("email", <<>>, <<rules_required(Str("email is required")),
                            rules_email(Str("invalid email format")),
                            rules_length_max(120, Str("length is above maximum"))>>)
Scenario1Required == ValidationError("email", "Required", Str("email is required"), NoMeta)
Scenario1Format == ValidationError("email", "Format", Str("invalid email format"), NoMeta)

\* C11: validating "email" with the empty string using required("email is
\* required"), email(), length_max(120) yields exactly one error, the
\* Required one; email and length_max add nothing for the empty value.
C11_EmptyEmailOneError ==
  (VRan /\ vdType = "string" /\ vd = Scenario1Validator) =>
     /\ vdRes = <<Scenario1Required>>
     /\ Added(2) = <<>> /\ Added(3) = <<>>

\* C11 as the code has it: the same validation yields exactly two errors,
\* Required from required() and then Format from email(), which treats the
\* empty string as a text without '@'; length_max(120) adds nothing.
C11_EmptyEmailTwoErrors ==
  (VRan /\ vdType = "string" /\ vd = Scenario1Validator) =>
     /\ vdRes = <<Scenario1Required, Scenario1Format>>
     /\ Added(1) = <<Scenario1Required>>
     /\ Added(2) = <<Scenario1Format>>
     /\ Added(3) = <<>>

C11_Witness == VRan /\ vdType = "string" /\ vd = Scenario1Validator /\ Len(vdRes) = 2

\* C12: an empty string validated with required, email, length_min(n), n >= 1,
\* yields exactly three errors, one per rule in registration order (Required,
\* Format, LengthMin), each carrying the validator's field name.
C12_ThreeRulesThreeErrors ==
  (/\ VRan /\ vdType = "string" /\ vd.value_ = <<>>
   /\ Len(vd.rules_) = 3
   /\ vd.rules_[1].kind = "required" /\ vd.rules_[2].kind = "email"
   /\ vd.rules_[3].kind = "length_min" /\ vd.rules_[3].a >= 1) =>
     /\ Len(vdRes) = 3
     /\ vdRes[1].code = "Required" /\ vdRes[2].code = "Format" /\ vdRes[3].code = "LengthMin"
     /\ \A i \in 1..3 : vdRes[i].field = vd.field_ /\ vdRes[i].message = vd.rules_[i].msg
     /\ \A i \in 1..3 : Added(i) = <<vdRes[i]>>

C12_Witness ==
  /\ VRan /\ vdType = "string" /\ vd.value_ = <<>>
  /\ Len(vd.rules_) = 3
  /\ vd.rules_[1].kind = "required" /\ vd.rules_[2].kind = "email"
  /\ vd.rules_[3] = rules_length_min(2, Str("too short"))
  /\ Len(vdRes) = 3

\* C13: for every text v the required rule appends exactly one error (code
\* Required, the configured message) iff v is empty; a non-empty v, blanks
\* included, is never flagged.
C13_RequiredFlagsIffEmpty ==
  (VRan /\ vdType = "string") =>
     \A i \in RuleIdx :
        vd.rules_[i].kind = "required" =>
           Added(i) = IF Len(vd.value_) = 0
                      THEN <<ValidationError(vd.field_, "Required", vd.rules_[i].msg, NoMeta)>>
                      ELSE <<>>

\* required() has run on a text of one blank and on nothing else
C13_Witness ==
  /\ VRan /\ vdType = "string"
  /\ vd.value_ = <<" ">>
  /\ vd.rules_ = <<rules_required(Str("field is required"))>>
  /\ vdRes = <<>>

\* C14: for every numeric v and bounds a <= b, between(a, b) appends an error
\* iff v < a or v > b (v = a and v = b never flag); the error is single, has
\* code Between and meta min = a, max = b, got = v.
C14_BetweenInclusive ==
  (VRan /\ vdType = "int") =>
     \A i \in RuleIdx :
        LET r == vd.rules_[i]
            v == vd.value_
        IN (r.kind = "between" /\ r.a <= r.b) =>
              IF v < r.a \/ v > r.b
              THEN /\ Len(Added(i)) = 1
                   /\ Added(i)[1].field = vd.field_
                   /\ Added(i)[1].code = "Between"
                   /\ Added(i)[1].message = r.msg
                   /\ DOMAIN Added(i)[1].meta = {"min", "max", "got"}
                   /\ Added(i)[1].meta["min"] = <<Digits[r.a + 1]>>
                   /\ Added(i)[1].meta["max"] = <<Digits[r.b + 1]>>
                   /\ Added(i)[1].meta["got"] = <<Digits[v + 1]>>
              ELSE Added(i) = <<>>

\* between(1, 3) has accepted the upper bound itself
C14_Witness ==
  /\ VRan /\ vdType = "int"
  /\ vd.value_ = 3
  /\ vd.rules_ = <<rules_between(1, 3, Str("value is out of range"))>>
  /\ vdRes = <<>>

\* C15: min(m) appends an error (code Min, meta min and got) iff value < m,
\* max(m) appends an error (code Max, meta max and got) iff value > m; a
\* value equal to the bound passes both.
C15_MinMaxStrict ==
  (VRan /\ vdType = "int") =>
     \A i \in RuleIdx :
        LET r == vd.rules_[i]
            v == vd.value_
        IN /\ r.kind = "min" =>
                IF v < r.a
                THEN /\ Len(Added(i)) = 1
                     /\ Added(i)[1].code = "Min" /\ Added(i)[1].field = vd.field_
                     /\ DOMAIN Added(i)[1].meta = {"min", "got"}
                     /\ Added(i)[1].meta["min"] = <<Digits[r.a + 1]>>
                     /\ Added(i)[1].meta["got"] = <<Digits[v + 1]>>
                ELSE Added(i) = <<>>
           /\ r.kind = "max" =>
                IF v > r.a
                THEN /\ Len(Added(i)) = 1
                     /\ Added(i)[1].code = "Max" /\ Added(i)[1].field = vd.field_
                     /\ DOMAIN Added(i)[1].meta = {"max", "got"}
                     /\ Added(i)[1].meta["max"] = <<Digits[r.a + 1]>>
                     /\ Added(i)[1].meta["got"] = <<Digits[v + 1]>>
                ELSE Added(i) = <<>>

\* min(3) and max(3) have both accepted the value 3
C15_Witness ==
  /\ VRan /\ vdType = "int"
  /\ vd.value_ = 3
  /\ Len(vd.rules_) = 2
  /\ vd.rules_[1].kind = "min" /\ vd.rules_[1].a = 3
  /\ vd.rules_[2].kind = "max" /\ vd.rules_[2].a = 3
  /\ vdRes = <<>>

\* C16: for every text s and bound n, length_max(n) appends an error (code
\* LengthMax, meta max = n, got = length of s) iff the length of s exceeds n,
\* so a text of exactly n characters passes; length_min(n) flags iff the
\* length of s is below n.
C16_LengthBounds ==
  (VRan /\ vdType = "string") =>
     \A i \in RuleIdx :
        LET r == vd.rules_[i]
            n == Len(vd.value_)
        IN /\ r.kind = "length_max" =>
                IF n > r.a
                THEN /\ Len(Added(i)) = 1
                     /\ Added(i)[1].code = "LengthMax" /\ Added(i)[1].field = vd.field_
                     /\ DOMAIN Added(i)[1].meta = {"max", "got"}
                     /\ Added(i)[1].meta["max"] = to_string_int(r.a)
                     /\ Added(i)[1].meta["got"] = <<Digits[n + 1]>>
                ELSE Added(i) = <<>>
           /\ r.kind = "length_min" =>
                IF n < r.a
                THEN /\ Len(Added(i)) = 1
                     /\ Added(i)[1].code = "LengthMin" /\ Added(i)[1].field = vd.field_
                     /\ DOMAIN Added(i)[1].meta = {"min", "got"}
                     /\ Added(i)[1].meta["min"] = to_string_int(r.a)
                     /\ Added(i)[1].meta["got"] = <<Digits[n + 1]>>
                ELSE Added(i) = <<>>

\* length_max(2) has accepted a text of exactly two characters
C16_Witness ==
  /\ VRan /\ vdType = "string"
  /\ Len(vd.value_) = 2
  /\ Len(vd.rules_) = 1
  /\ vd.rules_[1].kind = "length_max" /\ vd.rules_[1].a = 2
  /\ vdRes = <<>>

AtCount(text) == Cardinality({i \in 1..Len(text) : text[i] = "@"})

\* C17: the email rule accepts a value only if it holds exactly one '@':
\* every value with two or more '@' (such as "a@b@c.com"), with no '@', or
\* with '@' as its first character gets a Format error.
C17_EmailExactlyOneAt ==
  (VRan /\ vdType = "string") =>
     \A i \in RuleIdx :
        (/\ vd.rules_[i].kind = "email"
         /\ (AtCount(vd.value_) # 1 \/ vd.value_[1] = "@")) =>
           Added(i) = <<ValidationError(vd.field_, "Format", vd.rules_[i].msg, NoMeta)>>

Merged == eLast.op \in {"merge(const&)", "merge(&&)"}
RECURSIVE ErrorSeqsUpTo(_)
ErrorSeqsUpTo(n) ==
  IF n = 0 THEN {<<>>}
  ELSE LET shorter == ErrorSeqsUpTo(n - 1)
       IN shorter \cup {Append(q, e) : q \in {x \in shorter : Len(x) = n - 1}, e \in ErrorPool}

\* C19: merging is concatenation: after A.merge(B), through either overload
\* of ValidationErrors::merge or through ValidationResult::merge, A holds its
\* former errors in their former order followed by B's in B's order, its
\* size is |A| + |B|, and merging is associative.
C19_MergeConcatenates ==
  /\ Merged =>
       LET now == ec[eLast.dst]
           a == eLast.dstBefore
           b == eLast.srcBefore
       IN /\ Len(now) = Len(a) + Len(b)
          /\ \A i \in 1..Len(a) : now[i] = a[i]
          /\ \A j \in 1..Len(b) : now[Len(a) + j] = b[j]
  /\ \A c \in ErrorSeqsUpTo(2) :
       ErrorsMerge(ErrorsMerge(ec["A"], ec["B"]), c) = ErrorsMerge(ec["A"], ErrorsMerge(ec["B"], c))

\* two non-empty collections with different contents were merged by the
\* move overload through ValidationResult
C19_Witness ==
  /\ eLast.op = "merge(&&)" /\ eLast.via = "ValidationResult"
  /\ Len(eLast.dstBefore) = 2 /\ Len(eLast.srcBefore) = 1
  /\ eLast.dstBefore[1] # eLast.srcBefore[1]
  /\ Len(ec[eLast.dst]) = 3

\* C20: after any sequence of add (three overloads), merge, clear and
\* reserve, ok() = empty() = (size() = 0) on the collection, and ok(),
\* empty(), operator bool and size() of the ValidationResult around it agree.
C20_OkIffEmptyIffSizeZero ==
  \A c \in Collections :
     /\ Errors_ok(ec[c]) = Errors_empty(ec[c])
     /\ Errors_empty(ec[c]) = (Errors_size(ec[c]) = 0)
     /\ Result_ok(ec[c]) = Result_empty(ec[c])
     /\ Result_bool(ec[c]) = Result_ok(ec[c])
     /\ Result_empty(ec[c]) = (Result_size(ec[c]) = 0)
     /\ Result_ok(ec[c]) = Errors_ok(ec[c])

\* a collection that held errors was cleared while the other still holds one
C20_Witness ==
  /\ eLast.op = "clear"
  /\ Len(eLast.dstBefore) >= 1
  /\ ec[eLast.dst] = <<>>
  /\ \E c \in Collections : Len(ec[c]) = 1

EverAppends == {"add(error)", "add(field, code, message)", "add(field, code, message, meta)",
                "merge(const&)", "merge(&&)", "reserve"}

\* C21: the error collection is append-only: no operation ValidationErrors
\* exposes removes or reorders an entry; after every operation the previous
\* contents are a prefix of the new contents.
C21_AppendOnly ==
  eLast.op # "none" =>
     /\ IsPrefix(eLast.dstBefore, ec[eLast.dst])
     /\ eLast.src # "" => IsPrefix(eLast.srcBefore, ec[eLast.src])

\* C21 as the code has it: add (three overloads), merge (for the collection
\* merged into) and reserve keep the previous contents as a prefix of the new
\* contents, and merge(const&) leaves the collection merged from as it was.
C21_AddMergeAppendOnly ==
  /\ eLast.op \in EverAppends => IsPrefix(eLast.dstBefore, ec[eLast.dst])
  /\ eLast.op = "merge(const&)" => ec[eLast.src] = eLast.srcBefore
  /\ eLast.op \in {"add(error)", "add(field, code, message)", "add(field, code, message, meta)"} =>
        Len(ec[eLast.dst]) = Len(eLast.dstBefore) + 1

\* an error was added to a collection already holding two different errors
C21_Witness ==
  /\ eLast.op = "add(error)"
  /\ Len(eLast.dstBefore) = 2
  /\ eLast.dstBefore[1] # eLast.dstBefore[2]
  /\ Len(ec[eLast.dst]) = 3

(***************************************************************************)
(* Error code claims                                                       *)
(***************************************************************************)
StableIdentifier ==
  [c \in ErrorCodes |->
     CASE c = "Required" -> "required" [] c = "Min" -> "min" [] c = "Max" -> "max"
       [] c = "LengthMin" -> "length_min" [] c = "LengthMax" -> "length_max"
       [] c = "Between" -> "between" [] c = "Format" -> "format"
       [] c = "InSet" -> "in_set" [] c = "Custom" -> "custom"]

\* C22: to_string maps Required, Min, Max, LengthMin, LengthMax, Between,
\* Format, InSet, Custom to "required", "min", "max", "length_min",
\* "length_max", "between", "format", "in_set", "custom"; no two kinds share
\* an identifier and no declared kind maps to "unknown".
C22_CodesHaveStableIdentifiers ==
  /\ \A p \in tsSeen :
       p.code \in ErrorCodes => p.text = <<StableIdentifier[p.code]>> /\ p.text # <<"unknown">>
  /\ \A p, q \in tsSeen :
       (p.code \in ErrorCodes /\ q.code \in ErrorCodes /\ p.text = q.text) => p.code = q.code

\* every declared code has been serialised
C22_Witness ==
  /\ Cardinality(ErrorCodes) = 9
  /\ \A c \in ErrorCodes : \E p \in tsSeen : p.code = c
  /\ Cardinality({p.text : p \in {q \in tsSeen : q.code \in ErrorCodes}}) = 9

(***************************************************************************)
(* Registration shape claims                                               *)
(***************************************************************************)
ShapesRan == shOp = "validate"
OnlyFieldChecks == \A i \in 1..Len(shA) : shA[i].form = "field_result"
OnlyParsedChecks == \A i \in 1..Len(shA) : shA[i].form = "parsed_result"

\* C23: the three ways of registering a typed field check are equivalent:
\* for the same field name, accessor and rules, Schema.field given a callable
\* returning a ValidationResult, a callable returning an unexecuted
\* Validator, or a FieldSpec makes Schema.validate emit element-wise
\* identical errors for every record.
C23_FieldShapesEquivalent ==
  (ShapesRan /\ OnlyFieldChecks) => (shOut.A = shOut.B /\ shOut.B = shOut.C)

\* three schemas with two field checks each have reported the same errors
C23_Witness ==
  /\ ShapesRan /\ OnlyFieldChecks
  /\ Len(shA) >= 2
  /\ Len(shOut.A) >= 2
  /\ shOut.A = shOut.C

\* C24: the three ways of registering a parsed field check are equivalent:
\* for the same field name, accessor, typed rules and parse-failure message,
\* Schema.parsed given a callable returning a ValidationResult, a callable
\* returning an unexecuted ParsedValidator, or a ParsedSpec makes
\* Schema.validate emit identical errors for every record, whether the text
\* parses or not (same Format error: same message and meta).
C24_ParsedShapesEquivalent ==
  (ShapesRan /\ OnlyParsedChecks) => (shOut.A = shOut.B /\ shOut.B = shOut.C)

(***************************************************************************)
(* Binding strategy claim                                                  *)
(***************************************************************************)
\* C25: for every (record type, input type) pairing exactly one binding
\* strategy applies: a pairing with more than one shape-compatible strategy
\* is rejected at build time, and so is one with none; no such pairing
\* reaches run time with a strategy silently chosen.
C25_ExactlyOneStrategy ==
  (fpc # "idle") => Cardinality(CompatibleStrategies(fcfg)) = 1

(***************************************************************************)
(* result_into return value claim                                          *)
(***************************************************************************)
PVParseFailed == ~parse(pv.input_).ok

\* C26: ParsedValidator.result_into(out, msg) returns true iff the call
\* appended zero errors to out (false on parse failure and whenever a typed
\* rule appended an error), however many errors out already held; the
\* entries out held before the call are unchanged and remain a prefix of out.
C26_ResultIntoReturnsNoGrowth ==
  (pvOp = "result_into") =>
     /\ pvRet <=> (Len(pvOut) = Len(pvBefore))
     /\ PVParseFailed => ~pvRet
     /\ Len(pvOut) >= Len(pvBefore)
     /\ SubSeq(pvOut, 1, Len(pvBefore)) = pvBefore

\* result_into returned true on an accumulator that already held an error,
\* after running at least one typed rule
C26_Witness ==
  /\ pvOp = "result_into"
  /\ pvBefore # <<>>
  /\ pvCalls # <<>>
  /\ pvRet
  /\ pvOut = pvBefore

(***************************************************************************)
(* Rule sequence claims                                                    *)
(***************************************************************************)
\* the errors of each rule applied alone to the value, one after another
RECURSIVE AloneConcat(_, _, _)
AloneConcat(field, value, rules) ==
  IF rules = <<>> THEN <<>>
  ELSE (IF RuleSet(Head(rules)) THEN RuleCall(Head(rules), field, value, <<>>) ELSE <<>>)
       \o AloneConcat(field, value, Tail(rules))

\* C27: applying a rule sequence invokes each set rule once, in registration
\* order, on the same value, skips unset rules, and rules do not influence
\* one another: the errors of r1..rn are the concatenation, in order, of the
\* errors each rule produces alone.  apply_rules returns what
\* apply_rules_into appends to an empty collection, and apply_rules_into
\* leaves the accumulator's earlier entries unchanged.
C27_SequenceIsConcatenation ==
  /\ (apOp = "apply_rules_into") =>
        apOut = apPre \o AloneConcat(apField, apValue, apRules)
  /\ (apOp = "apply_rules") =>
        apRes = AloneConcat(apField, apValue, apRules)

\* a vector holding an unset rule and two reporting rules was applied to an
\* accumulator that already held an error
C27_Witness ==
  /\ apOp = "apply_rules_into"
  /\ apPre # <<>>
  /\ \E i \in 1..Len(apRules) : ~RuleSet(apRules[i])
  /\ Len(apOut) = Len(apPre) + 2
  /\ apOut[Len(apOut)].code # apOut[Len(apOut) - 1].code

\* the value has exactly one '@', and it is not the first character
OneAtNotFirst(value) ==
  /\ Cardinality({i \in 1..Len(value) : value[i] = "@"}) = 1
  /\ value[1] # "@"
\* some '.' after the '@' is neither right behind the '@' nor the last character
HasInnerDot(value) ==
  LET at == CHOOSE i \in 1..Len(value) : value[i] = "@"
  IN \E i \in (at + 1)..Len(value) : value[i] = "." /\ i # at + 1 /\ i # Len(value)
EmailAlone == apType = "string" /\ Len(apRules) = 1 /\ apRules[1].kind = "email"

\* C28: for every value with exactly one '@' that is not its first
\* character, the email rule accepts the value iff some '.' after the '@' is
\* neither the character right after the '@' nor the last character (so
\* "a@.b.c" is accepted, "a@b." and "a@.b" are flagged).
C28_EmailAcceptsIffInnerDot ==
  (apOp = "apply_rules" /\ EmailAlone /\ OneAtNotFirst(apValue)) =>
     ((apRes = <<>>) <=> HasInnerDot(apValue))

BuiltIn(r) == r.kind \notin {"null", "custom"}
TraceBefore(i) == IF i = 1 THEN apPre ELSE apTrace[i - 1]

\* C29: every built-in rule (required, required_sv, optional required, min,
\* max, between, length_min, length_max, in_set, email) appends at most one
\* error per invocation, the appended error's field is the field name passed
\* to the rule, and the rule neither modifies, removes nor reorders errors
\* already in the accumulator nor changes the value being validated.
C29_BuiltInRulesAppendAtMostOne ==
  /\ [](apOp = "apply_rules_into" =>
          \A i \in 1..Len(apRules) :
            BuiltIn(apRules[i]) =>
              /\ Len(apTrace[i]) \in {Len(TraceBefore(i)), Len(TraceBefore(i)) + 1}
              /\ SubSeq(apTrace[i], 1, Len(TraceBefore(i))) = TraceBefore(i)
              /\ Len(apTrace[i]) > Len(TraceBefore(i)) =>
                    apTrace[i][Len(apTrace[i])].field = apField)
  /\ [][apOp' \in {"apply_rules_into", "apply_rules"} => apValue' = apValue]_vars

\* in_set reported a value outside the allowed set, after errors that were
\* already in the accumulator
C29_Witness ==
  /\ apOp = "apply_rules_into"
  /\ \E i \in 1..Len(apRules) :
       /\ apRules[i].kind = "in_set"
       /\ TraceBefore(i) # <<>>
       /\ Len(apTrace[i]) = Len(TraceBefore(i)) + 1
       /\ apTrace[i][Len(apTrace[i])].code = "InSet"

(***************************************************************************)
(* Named constructor claim                                                 *)
(***************************************************************************)
\* C30: the named constructors do not fix the outcome: failure(e) and
\* from_errors(e) are ok() exactly when e is empty, so failure of an empty
\* collection is indistinguishable from success(); success() is always ok()
\* with zero errors; the errors held by failure(e) are exactly e, in order.
C30_NamedConstructorsKeepErrors ==
  /\ er.ctor \in {"failure", "from_errors"} =>
       /\ Result_ok(er.errors) <=> Errors_empty(er.arg)
       /\ er.errors = er.arg
       /\ Errors_empty(er.arg) => er.errors = ValidationResult_success
  /\ er.ctor = "success" =>
       /\ Result_ok(er.errors)
       /\ Result_size(er.errors) = 0

\* failure() was handed an empty collection while the other collection
\* holds two errors, and the result is ok
C30_Witness ==
  /\ er.ctor = "failure"
  /\ er.arg = <<>>
  /\ Result_ok(er.errors)
  /\ \E c \in Collections : Len(ec[c]) = 2

====
